---- MODULE Spec2Model ----
(***************************************************************************)
(* Deterministic lockstep demo: the simulated transport (network.ts), the  *)
(* command manager (command-manager.ts), the command processor, the Unit   *)
(* entity with its decimal.js arithmetic, and the fixed-timestep loop      *)
(* (game.ts), for a small set of game instances that exchange commands.    *)
(***************************************************************************)
EXTENDS Integers, Sequences, FiniteSets, Bags, TLC

(***************************************************************************)
(* decimal.js numbers.  A Decimal is sign * coefficient * 10^exponent; the *)
(* coefficient is a sequence of decimal digits, most significant first,    *)
(* with neither leading nor trailing zeros (zero is the empty sequence),   *)
(* so equal numbers are equal records.  Every arithmetic result is rounded *)
(* to Precision significant digits, ties away from zero (ROUND_HALF_UP),   *)
(* the defaults of the library the units are built on.                     *)
(***************************************************************************)
Precision == 20

Zeros(n) == [i \in 1..n |-> 0]

SetMin(S) == CHOOSE x \in S : \A y \in S : x <= y
SetMax(S) == CHOOSE x \in S : \A y \in S : x >= y

\* A digit (or limb) sequence without its leading zeros / trailing zeros.
StripLeading(a) ==
    LET nz == {i \in 1..Len(a) : a[i] # 0}
    IN  IF nz = {} THEN <<>> ELSE SubSeq(a, SetMin(nz), Len(a))

StripTrailing(a) ==
    LET nz == {i \in 1..Len(a) : a[i] # 0}
    IN  IF nz = {} THEN <<>> ELSE SubSeq(a, 1, SetMax(nz))

PadLeft(a, n) == Zeros(n - Len(a)) \o a

(***************************************************************************)
(* Natural-number arithmetic on coefficients.  The library keeps a         *)
(* coefficient in limbs of several decimal digits; here a limb holds four  *)
(* digits (base 10000), most significant limb first, no leading zero limb. *)
(***************************************************************************)
Base == 10000

ToLimbs(digits) ==
    LET n == Len(digits)
        m == (n + 3) \div 4
        D(j) == IF j >= 1 THEN digits[j] ELSE 0
    IN  [i \in 1..m |->
            LET last == n - 4 * (m - i)
            IN  1000 * D(last - 3) + 100 * D(last - 2) + 10 * D(last - 1) + D(last)]

ToDigits(limbs) ==
    StripLeading([j \in 1..(4 * Len(limbs)) |->
        LET limb == limbs[(j + 3) \div 4]
            pos  == (j - 1) % 4
        IN  IF pos = 0 THEN limb \div 1000
            ELSE IF pos = 1 THEN (limb \div 100) % 10
            ELSE IF pos = 2 THEN (limb \div 10) % 10
            ELSE limb % 10])

\* Comparison of two naturals in limbs (or digits) without leading zeros:
\* -1, 0 or 1.
LimbCmp(a, b) ==
    IF Len(a) < Len(b) THEN -1
    ELSE IF Len(a) > Len(b) THEN 1
    ELSE LET diff == {i \in 1..Len(a) : a[i] # b[i]}
         IN  IF diff = {} THEN 0
             ELSE IF a[SetMin(diff)] < b[SetMin(diff)] THEN -1 ELSE 1

RECURSIVE AddRec(_, _, _, _, _)
AddRec(a, b, i, carry, acc) ==
    IF i = 0 THEN (IF carry = 0 THEN acc ELSE <<carry>> \o acc)
    ELSE LET s == a[i] + b[i] + carry
         IN  AddRec(a, b, i - 1, s \div Base, <<s % Base>> \o acc)

LimbAdd(a, b) ==
    LET n == IF Len(a) > Len(b) THEN Len(a) ELSE Len(b)
    IN  StripLeading(AddRec(PadLeft(a, n), PadLeft(b, n), n, 0, <<>>))

RECURSIVE SubRec(_, _, _, _, _)
SubRec(a, b, i, borrow, acc) ==
    IF i = 0 THEN acc
    ELSE LET s == a[i] - b[i] - borrow
         IN  IF s < 0 THEN SubRec(a, b, i - 1, 1, <<s + Base>> \o acc)
                      ELSE SubRec(a, b, i - 1, 0, <<s>> \o acc)

\* a - b for a >= b.
LimbSub(a, b) == StripLeading(SubRec(a, PadLeft(b, Len(a)), Len(a), 0, <<>>))

RECURSIVE MulSmallRec(_, _, _, _, _)
MulSmallRec(a, k, i, carry, acc) ==
    IF i = 0 THEN (IF carry = 0 THEN acc ELSE <<carry>> \o acc)
    ELSE LET s == a[i] * k + carry
         IN  MulSmallRec(a, k, i - 1, s \div Base, <<s % Base>> \o acc)

\* a * k for one limb k.
LimbMulSmall(a, k) == StripLeading(MulSmallRec(a, k, Len(a), 0, <<>>))

RECURSIVE MulRec(_, _, _, _)
MulRec(a, b, j, acc) ==
    IF j > Len(b) THEN acc
    ELSE LET shifted == IF acc = <<>> THEN <<>> ELSE acc \o <<0>>
             next    == LimbAdd(shifted, LimbMulSmall(a, b[j]))
         IN  MulRec(a, b, j + 1, next)

LimbMul(a, b) == MulRec(a, b, 1, <<>>)

\* The largest limb q in lo..hi with q * b <= r (lo satisfies it), by bisection.
RECURSIVE QuotLimb(_, _, _, _)
QuotLimb(r, b, lo, hi) ==
    IF lo = hi \/ LimbCmp(r, b) < 0 THEN lo
    ELSE LET mid == (lo + hi + 1) \div 2
         IN  IF LimbCmp(LimbMulSmall(b, mid), r) <= 0
             THEN QuotLimb(r, b, mid, hi)
             ELSE QuotLimb(r, b, lo, mid - 1)

\* Long division: floor(a / b), b > 0.
RECURSIVE DivRec(_, _, _, _, _)
DivRec(a, b, i, rem, acc) ==
    IF i > Len(a) THEN StripLeading(acc)
    ELSE LET r == StripLeading(rem \o <<a[i]>>)
             q == QuotLimb(r, b, 0, Base - 1)
             left == LimbSub(r, LimbMulSmall(b, q))
         IN  DivRec(a, b, i + 1, left, acc \o <<q>>)

LimbDiv(a, b) == DivRec(a, b, 1, <<>>, <<>>)

\* (2 * Base * root + d) * d
RootTerm(root, d) ==
    LimbMulSmall(LimbAdd(IF root = <<>> THEN <<>> ELSE LimbMulSmall(root, 2) \o <<0>>,
                         IF d = 0 THEN <<>> ELSE <<d>>), d)

\* The largest limb d in lo..hi with (2 * Base * root + d) * d <= rem.
RECURSIVE RootLimb(_, _, _, _)
RootLimb(root, rem, lo, hi) ==
    IF lo = hi \/ rem = <<>> THEN lo
    ELSE LET mid == (lo + hi + 1) \div 2
         IN  IF LimbCmp(RootTerm(root, mid), rem) <= 0
             THEN RootLimb(root, rem, mid, hi)
             ELSE RootLimb(root, rem, lo, mid - 1)

\* Limb-by-limb square root: floor(sqrt(a)) for a of an even number of limbs.
RECURSIVE SqrtRec(_, _, _, _)
SqrtRec(a, i, rem, root) ==
    IF i > Len(a) THEN root
    ELSE LET r == StripLeading(rem \o <<a[i], a[i + 1]>>)
             d == RootLimb(root, r, 0, Base - 1)
             left == LimbSub(r, RootTerm(root, d))
         IN  SqrtRec(a, i + 2, left, StripLeading(root \o <<d>>))

LimbSqrt(a) == SqrtRec(IF Len(a) % 2 = 1 THEN <<0>> \o a ELSE a, 1, <<>>, <<>>)

\* The same operations on digit sequences.
NatCmp(a, b) == LimbCmp(a, b)
NatAdd(a, b) == ToDigits(LimbAdd(ToLimbs(a), ToLimbs(b)))
NatSub(a, b) == ToDigits(LimbSub(ToLimbs(a), ToLimbs(b)))
NatMul(a, b) == ToDigits(LimbMul(ToLimbs(a), ToLimbs(b)))
NatDiv(a, b) == ToDigits(LimbDiv(ToLimbs(a), ToLimbs(b)))
NatSqrt(a) == ToDigits(LimbSqrt(ToLimbs(a)))

DecZero == [s |-> 1, d |-> <<>>, e |-> 0]

\* Canonical form of sign * digits * 10^e, digits of any length: rounded to
\* Precision significant digits, half away from zero, trailing zeros removed.
finalise(s, digits, e) ==
    LET a == StripLeading(digits)
        n == Len(a)
        r == IF n <= Precision THEN a
             ELSE IF a[Precision + 1] >= 5
                  THEN NatAdd(SubSeq(a, 1, Precision), <<1>>)
                  ELSE SubSeq(a, 1, Precision)
        e1 == IF n <= Precision THEN e ELSE e + (n - Precision)
        t == StripTrailing(r)
    IN  IF t = <<>> THEN DecZero
        ELSE [s |-> s, d |-> t, e |-> e1 + (Len(r) - Len(t))]

RECURSIVE DigitsOf(_)
DigitsOf(n) == IF n = 0 THEN <<>> ELSE DigitsOf(n \div 10) \o <<n % 10>>

\* Decimal(n) for an integer n.
Decimal(n) == IF n < 0 THEN finalise(-1, DigitsOf(-n), 0)
                       ELSE finalise(1, DigitsOf(n), 0)

\* The coefficient of x written at exponent e <= x.e.
AtExp(x, e) == IF x.d = <<>> THEN <<>> ELSE x.d \o Zeros(x.e - e)

negated(x) == IF x.d = <<>> THEN x ELSE [x EXCEPT !.s = -x.s]

plus(x, y) ==
    LET e == IF x.e < y.e THEN x.e ELSE y.e
        a == AtExp(x, e)
        b == AtExp(y, e)
    IN  IF x.d = <<>> THEN finalise(y.s, y.d, y.e)
        ELSE IF y.d = <<>> THEN finalise(x.s, x.d, x.e)
        ELSE IF x.s = y.s THEN finalise(x.s, NatAdd(a, b), e)
        ELSE IF NatCmp(a, b) >= 0 THEN finalise(x.s, NatSub(a, b), e)
        ELSE finalise(y.s, NatSub(b, a), e)

minus(x, y) == plus(x, negated(y))

mul(x, y) ==
    IF x.d = <<>> \/ y.d = <<>> THEN DecZero
    ELSE finalise(x.s * y.s, NatMul(x.d, y.d), x.e + y.e)

\* x / y for y # 0: the quotient is computed to more than Precision digits
\* and then rounded.
div(x, y) ==
    IF x.d = <<>> THEN DecZero
    ELSE LET k == IF Len(x.d) < Precision + 1 + Len(y.d)
                  THEN Precision + 1 + Len(y.d) - Len(x.d) ELSE 0
         IN  finalise(x.s * y.s, NatDiv(x.d \o Zeros(k), y.d), x.e - y.e - k)

\* Decimal.sqrt(x) for x >= 0.
sqrt(x) ==
    IF x.d = <<>> THEN DecZero
    ELSE LET k0 == IF Len(x.d) < 2 * (Precision + 1)
                   THEN 2 * (Precision + 1) - Len(x.d) ELSE 0
             k  == IF (x.e - k0) % 2 = 0 THEN k0 ELSE k0 + 1
         IN  finalise(1, NatSqrt(x.d \o Zeros(k)), (x.e - k) \div 2)

\* The sign of x - y (exact, no rounding): -1, 0 or 1.
DecCmp(x, y) ==
    LET e == IF x.e < y.e THEN x.e ELSE y.e
        a == AtExp(x, e)
        b == AtExp(y, e)
        sx == IF x.d = <<>> THEN 0 ELSE x.s
        sy == IF y.d = <<>> THEN 0 ELSE y.s
    IN  IF sx # sy THEN (IF sx < sy THEN -1 ELSE 1)
        ELSE IF sx = 0 THEN 0
        ELSE sx * NatCmp(a, b)

lessThanOrEqualTo(x, y) == DecCmp(x, y) <= 0

(***************************************************************************)
(* Commands (commands.ts), points (point.ts) and units (unit.ts).          *)
(***************************************************************************)
\* The value of an absent optional field (a click, a target).
undefined == [undefined |-> TRUE]

\* constants.ts: PLAYER_SPEED
PlayerSpeed == 5
PLAYER_SPEED == Decimal(PlayerSpeed)

Point2D(px, py) == [x |-> Decimal(px), y |-> Decimal(py)]

NoopCommand(playerId) == [playerId |-> playerId, type |-> "noop"]

MoveCommand(playerId, entityId, point) ==
    [type |-> "move", entityId |-> entityId, playerId |-> playerId, point |-> point]

\* new Unit({entityId, playerId, isMine, position, speed}): no target yet.
Unit(entityId, playerId, isMine, position, speed) ==
    [id |-> entityId, playerId |-> playerId, isMine |-> isMine,
     position |-> position, target |-> undefined, speed |-> speed]

\* processCommand obeying a Move only while the unit has no target.
processCommandIfIdle(unit, command) ==
    IF command.type = "move" /\ unit.target = undefined
    THEN [unit EXCEPT !.target = command.point] ELSE unit

\* processCommand obeying a Move only on the instance that owns the unit.
processCommandIfMine(unit, command) ==
    IF command.type = "move" /\ unit.isMine
    THEN [unit EXCEPT !.target = command.point] ELSE unit

\* Unit.processCommand: a Move sets the target, anything else is ignored.
processCommand(unit, command) ==
    IF command.type = "move" THEN [unit EXCEPT !.target = command.point] ELSE unit

\* Unit.update, first half: the commands a unit enqueues for the frame's input.
UnitEnqueues(unit, leftMouseClick) ==
    IF leftMouseClick # undefined /\ unit.isMine
    THEN <<MoveCommand(unit.playerId, unit.id,
                       Point2D(leftMouseClick.x, leftMouseClick.y))>>
    ELSE <<>>

\* Unit.update, second half: one tick of movement towards the target.
UnitMove(unit) ==
    IF unit.target = undefined THEN unit
    ELSE LET dx == minus(unit.target.x, unit.position.x)
             dy == minus(unit.target.y, unit.position.y)
             distance == sqrt(plus(mul(dx, dx), mul(dy, dy)))
         IN  IF lessThanOrEqualTo(distance, unit.speed)
             THEN [unit EXCEPT !.position = [x |-> unit.target.x, y |-> unit.target.y],
                               !.target = undefined]
             ELSE [unit EXCEPT !.position =
                      [x |-> plus(unit.position.x, div(mul(unit.speed, dx), distance)),
                       y |-> plus(unit.position.y, div(mul(unit.speed, dy), distance))]]

(***************************************************************************)
(* Command processor (command-processor.ts).                               *)
(***************************************************************************)
\* processCommands giving up at the first Move whose entity is missing.
RECURSIVE processCommandsHalting(_, _)
processCommandsHalting(commands, entities) ==
    IF commands = <<>> THEN entities
    ELSE LET command == Head(commands)
         IN  IF command.type = "move" /\ command.entityId \notin DOMAIN entities
             THEN entities
             ELSE processCommandsHalting(Tail(commands),
                      IF command.type = "move"
                      THEN [entities EXCEPT ![command.entityId] =
                                processCommand(entities[command.entityId], command)]
                      ELSE entities)

RECURSIVE processCommands(_, _)
processCommands(commands, entities) ==
    IF commands = <<>> THEN entities
    ELSE LET command == Head(commands)
             next == IF command.type = "move" /\ command.entityId \in DOMAIN entities
                     THEN [entities EXCEPT ![command.entityId] =
                               processCommand(entities[command.entityId], command)]
                     ELSE entities
         IN  processCommands(Tail(commands), next)

(***************************************************************************)
(* Command manager (command-manager.ts): the pure parts.  A tick map is a  *)
(* function from ticks to functions from player ids to command lists.      *)
(***************************************************************************)
RECURSIVE Flat(_)
Flat(lists) == IF lists = <<>> THEN <<>> ELSE Head(lists) \o Flat(Tail(lists))

Range(seq) == {seq[i] : i \in 1..Len(seq)}

\* The ascending sequence of a finite set of integers.
RECURSIVE Ascending(_)
Ascending(S) == IF S = {} THEN <<>> ELSE <<SetMin(S)>> \o Ascending(S \ {SetMin(S)})

\* String(n) for n >= 0, as its decimal digits.
StringOf(n) == IF n = 0 THEN <<0>> ELSE DigitsOf(n)

\* a < b in the order of Array.prototype.sort without a comparator: the
\* elements are compared as strings.
StringLess(a, b) ==
    LET sa == StringOf(a)
        sb == StringOf(b)
        n  == IF Len(sa) < Len(sb) THEN Len(sa) ELSE Len(sb)
        diff == {i \in 1..n : sa[i] # sb[i]}
    IN  IF diff = {} THEN Len(sa) < Len(sb)
        ELSE sa[SetMin(diff)] < sb[SetMin(diff)]

\* The constructor without its sort: the local player id first.
SortedPlayerIdsLocalFirst(playerId, others) == <<playerId>> \o others

\* constructor: [playerId, ...otherPlayerIds].sort()
SortedPlayerIds(playerId, others) == SortSeq(<<playerId>> \o others, StringLess)

\* initTickCommandsMap whose loop also fills tick `delay`.
initTickCommandsMapOneMore(delay, sorted) ==
    [t \in 0..delay |-> [q \in Range(sorted) |-> <<NoopCommand(q)>>]]

\* initTickCommandsMap whose loop starts at tick 1.
initTickCommandsMapFromOne(delay, sorted) ==
    [t \in 1..(delay - 1) |-> [q \in Range(sorted) |-> <<NoopCommand(q)>>]]

\* initTickCommandsMap: a Noop from every player for every tick below the delay.
initTickCommandsMap(delay, sorted) ==
    [t \in 0..(delay - 1) |-> [q \in Range(sorted) |-> <<NoopCommand(q)>>]]

\* addCommandsForPlayer without its test for an existing list: last write wins.
addCommandsForPlayerOverwrite(map, t, playerId, commands) ==
    IF commands = <<>> THEN map
    ELSE LET tickCommands == IF t \in DOMAIN map THEN map[t] ELSE <<>>
         IN  (t :> ((playerId :> commands) @@ tickCommands)) @@ map

addCommandsForPlayer(map, t, playerId, commands) ==
    IF commands = <<>> THEN map
    ELSE LET tickCommands == IF t \in DOMAIN map THEN map[t] ELSE <<>>
             stored == IF playerId \in DOMAIN tickCommands THEN tickCommands
                       ELSE (playerId :> commands) @@ tickCommands
         IN  (t :> stored) @@ map

getCommandsForPlayer(map, t, playerId) ==
    IF t \notin DOMAIN map THEN <<>>
    ELSE IF playerId \in DOMAIN map[t] THEN map[t][playerId] ELSE <<>>

\* isTickReady taking a tick without an entry for ready.
isTickReadyNoEntry(map, t, sorted) ==
    t \notin DOMAIN map \/ Cardinality(DOMAIN map[t]) = Len(sorted)

\* isTickReady asking only whether the tick has an entry at all.
isTickReadyAnyEntry(map, t, sorted) == t \in DOMAIN map

\* isTickReady content with all entries but one.
isTickReadyButOne(map, t, sorted) ==
    t \in DOMAIN map /\ Cardinality(DOMAIN map[t]) >= Len(sorted) - 1

isTickReady(map, t, sorted) ==
    t \in DOMAIN map /\ Cardinality(DOMAIN map[t]) = Len(sorted)

getAllCommands(map, t, sorted) ==
    IF t \in DOMAIN map
    THEN Flat([i \in 1..Len(sorted) |->
                 IF sorted[i] \in DOMAIN map[t] THEN map[t][sorted[i]] ELSE <<>>])
    ELSE <<>>

\* scheduleEnqueuedCommands that stores the queue as it is, empty or not.
scheduleEnqueuedCommandsNoFiller(map, t, playerId, queue) ==
    addCommandsForPlayer(map, t, playerId, queue)

\* scheduleEnqueuedCommands: the queue, or a Noop when it is empty, is stored
\* under (t, playerId); the caller empties the queue.
scheduleEnqueuedCommands(map, t, playerId, queue) ==
    addCommandsForPlayer(map, t, playerId,
                         IF Len(queue) > 0 THEN queue ELSE <<NoopCommand(playerId)>>)

\* delete map[t]
DeleteTick(map, t) == [k \in DOMAIN map \ {t} |-> map[k]]

\* Set.add on a Set kept in insertion order.
SetAdd(seq, x) == IF x \in Range(seq) THEN seq ELSE Append(seq, x)

(***************************************************************************)
(* State.  One Game with its CommandManager, LocalInputManager and Socket  *)
(* per player id; one Network shared by all.                               *)
(***************************************************************************)
VARIABLES
    commandDelay,      \* settings.global.commandDelay
    packetLoss,        \* socket options: packetLoss[p], in percent
    inFlightBound,     \* the messages in flight per channel the exploration goes up to
    sortedPlayerIds,   \* CommandManager._sortedPlayerIds
    otherPlayerIds,    \* CommandManager._otherPlayerIds
    tick,              \* CommandManager._tick
    commandQueue,      \* CommandManager._commandQueue
    tickCommandsMap,   \* CommandManager._tickCommandsMap
    acksToSend,        \* CommandManager._acksToSend, in insertion order
    pendingAcks,       \* CommandManager._pendingAcks
    gameTick,          \* Game._tick
    state,             \* Game._state.entities
    pc,                \* where the game loop of each instance stands
    waitTime,          \* waitForTick's waitTime, in 1/WaitScale ms
    timed,             \* the instances whose waitTime is followed (it changes nothing else)
    horizon,           \* the number of ticks the exploration lets an instance execute
    input,             \* LocalInputManager._input.leftMouseClick
    network,           \* the bag of messages inside Network.sendMessage's delay
    trigger,           \* Network.createSocket: a receive() is pending
    requests,          \* the next() calls the receive() generator has not answered yet
    sent,              \* the messages handed to Socket.send by the last step
    received,          \* the message the receive task processed in the last step
    executed,          \* per instance, one record per processed tick
    clicks,            \* number of mouse clicks so far
    api,               \* the call made on a Network, Socket or CommandManager by the last step
    unit,              \* a single Unit driven on its own
    moved,             \* the Move given to that unit: where it stood, where to
    updates            \* the number of update calls on that unit since the Move

cmVars == <<sortedPlayerIds, otherPlayerIds, tick, commandQueue, tickCommandsMap,
            acksToSend, pendingAcks>>
gameVars == <<gameTick, state, pc, waitTime, timed, horizon, input>>
netVars == <<network, trigger, requests, packetLoss, inFlightBound>>
unitVars == <<unit, moved, updates>>
protocolVars == <<commandDelay, cmVars, gameVars, netVars>>
logVars == <<sent, received, executed, clicks, api>>
vars == <<protocolVars, logVars, unitVars>>

\* Bounds of the exploration.
MaxTick == 3
MaxInFlight == 1
MaxClicks == 1
MaxRequests == 2

\* waitForTick: 50 ms at first, times 1.5 per retry, at most 500 ms.  Times
\* are kept in 1/32 ms so that every value is an integer.
WaitScale == 32
FirstWait == 50 * WaitScale
LongestWait == 500 * WaitScale
NextWait(w) == IF (w * 3) \div 2 < LongestWait THEN (w * 3) \div 2 ELSE LongestWait

\* The canvas points the local player may click.
ClickPoints == {[x |-> 50, y |-> 100]}

Players == DOMAIN pc

\* index.ts, initializeGameStates: unit i belongs to player i and starts at
\* (50 + 50 i, 50 + 50 i).
InitialEntities(ids, ownerId) ==
    [i \in ids |-> Unit(i, i, i = ownerId, Point2D(50 + i * 50, 50 + i * 50), PLAYER_SPEED)]

\* The instances right after construction, for player ids `ids`, command
\* delay `delay` and per-socket loss `loss`.
Setup(ids, delay, loss, timer, ticks, room) ==
    /\ commandDelay = delay
    /\ timed = timer
    /\ horizon = ticks
    /\ packetLoss = loss
    /\ inFlightBound = room
    /\ otherPlayerIds = [p \in ids |-> Ascending(ids \ {p})]
    /\ sortedPlayerIds = [p \in ids |-> SortedPlayerIds(p, Ascending(ids \ {p}))]
    /\ tick = [p \in ids |-> 0]
    /\ commandQueue = [p \in ids |-> <<>>]
    /\ tickCommandsMap =
           [p \in ids |-> initTickCommandsMap(delay, SortedPlayerIds(p, Ascending(ids \ {p})))]
    /\ acksToSend = [p \in ids |-> [q \in ids \ {p} |-> <<>>]]
    /\ pendingAcks = [p \in ids |-> [q \in ids \ {p} |-> {}]]
    /\ gameTick = [p \in ids |-> 0]
    /\ state = [p \in ids |-> InitialEntities(ids, p)]
    /\ pc = [p \in ids |-> "loop"]
    /\ waitTime = [p \in ids |-> 0]
    /\ input = [p \in ids |-> undefined]
    /\ network = EmptyBag
    /\ trigger = [p \in ids |-> TRUE]
    /\ requests = [p \in ids |-> 1]
    /\ sent = <<>>
    /\ received = undefined
    /\ executed = [p \in ids |-> <<>>]
    /\ clicks = 0
    /\ api = undefined

\* No unit is driven on its own.
NoUnit ==
    /\ unit = undefined
    /\ moved = undefined
    /\ updates = 0

(***************************************************************************)
(* Transport (network.ts).  Every sendMessage call waits on a timer of its *)
(* own: the messages in flight form a bag, each a record of the socket     *)
(* that sent it, the receiver and the message.  network.ts sets no limit   *)
(* to their number; the exploration follows the runs in which a channel    *)
(* holds at most inFlightBound of them, a timer of the channel firing      *)
(* before the next send.                                                   *)
(***************************************************************************)
\* The distinct messages in flight.
InFlight == BagToSet(network)

\* The distinct messages on their way from socket `from` to socket `to`.
Channel(net, from, to) == {m \in BagToSet(net) : m.from = from /\ m.to = to}

\* The number of sendMessage calls from `from` to `to` inside their delay.
ChannelLoad(net, from, to) ==
    BagCardinality([m \in Channel(net, from, to) |-> net[m]])

\* The exploration goes on with one more message on the channel of m.
HasRoom(net, m) == ChannelLoad(net, m.from, m.to) < inFlightBound

\* The exploration goes on with a sendCommands call of instance p.
RoomToSend(p) == \A i \in 1..Len(otherPlayerIds[p]) :
    ChannelLoad(network, p, otherPlayerIds[p][i]) < inFlightBound

\* Socket.send for every message of one sendCommands call: each enters its
\* delay, whatever is in flight already.
RECURSIVE Transmit(_, _)
Transmit(net, msgs) ==
    IF msgs = <<>> THEN net ELSE Transmit(net (+) SetToBag({Head(msgs)}), Tail(msgs))

\* The timer of one sendMessage call fires.
Arrived(net, m) == net (-) SetToBag({m})

\* isPacketLost(senderSocket, receiverSocket), the options read when the
\* timer fires: Math.random() < loss is possible iff loss > 0, and certain
\* iff loss = 1.
MayBeLost(m) == packetLoss[m.from] > 0 \/ packetLoss[m.to] > 0
MayArrive(m) == packetLoss[m.from] < 100 /\ packetLoss[m.to] < 100

(***************************************************************************)
(* Command manager: sending and receiving.                                 *)
(***************************************************************************)
\* sendCommands filling the message with the lists of all players.
NetworkMessageAllPlayers(p, q, t, map) ==
    [playerId |-> p,
     commands |-> [k \in {t} \cup pendingAcks[p][q] |->
                      getAllCommands(map, k, sortedPlayerIds[p])],
     acks |-> acksToSend[p][q]]

\* sendCommands reading the tick map as it was before the tick was scheduled.
NetworkMessageUnscheduled(p, q, t, map) ==
    [playerId |-> p,
     commands |-> [k \in {t} \cup pendingAcks[p][q] |->
                      getCommandsForPlayer(tickCommandsMap[p], k, p)],
     acks |-> acksToSend[p][q]]

\* The message sendCommands(t) builds for peer q from tick map `map`.
NetworkMessage(p, q, t, map) ==
    [playerId |-> p,
     commands |-> [k \in {t} \cup pendingAcks[p][q] |-> getCommandsForPlayer(map, k, p)],
     acks |-> acksToSend[p][q]]

\* The messages of sendCommands(t), in the order of _otherPlayerIds.
sendCommands(p, t, map) ==
    [i \in 1..Len(otherPlayerIds[p]) |->
        [from |-> p, to |-> otherPlayerIds[p][i],
         msg |-> NetworkMessage(p, otherPlayerIds[p][i], t, map)]]

\* sendCommands that does not remember what it sent.
PendingAfterSendForgetful(p, t) == pendingAcks[p]

\* sendCommands: every peer has tick t to acknowledge.
PendingAfterSend(p, t) == [q \in DOMAIN pendingAcks[p] |-> pendingAcks[p][q] \cup {t}]

\* sendCommands that does not clear the acks it sent.
AcksAfterSendKept(p) == acksToSend[p]

\* sendCommands: the acks to send are cleared, peer by peer.
AcksAfterSend(p) == [q \in DOMAIN acksToSend[p] |-> <<>>]

\* Object.entries(msg.commands): the keys that are array indices in
\* ascending order, then the others (a negative tick) as they were inserted.
TickKeys(commands) ==
    Ascending({k \in DOMAIN commands : k >= 0}) \o Ascending({k \in DOMAIN commands : k < 0})

\* startReceivingCommands without its test for stale ticks.
RECURSIVE MergeCommandsAll(_, _, _, _, _)
MergeCommandsAll(map, keys, commands, from, now) ==
    IF keys = <<>> THEN map
    ELSE MergeCommandsAll(addCommandsForPlayer(map, Head(keys), from, commands[Head(keys)]),
                          Tail(keys), commands, from, now)

\* startReceivingCommands, the loop over the commands of one message.
RECURSIVE MergeCommands(_, _, _, _, _)
MergeCommands(map, keys, commands, from, now) ==
    IF keys = <<>> THEN map
    ELSE LET k == Head(keys)
             next == IF k >= now THEN addCommandsForPlayer(map, k, from, commands[k])
                     ELSE map
         IN  MergeCommands(next, Tail(keys), commands, from, now)

RECURSIVE AddAll(_, _)
AddAll(seq, keys) ==
    IF keys = <<>> THEN seq ELSE AddAll(SetAdd(seq, Head(keys)), Tail(keys))

\* startReceivingCommands that leaves the acked ticks pending.
PendingAfterAcksKept(p, msg) == pendingAcks[p]

\* startReceivingCommands deleting the acked ticks from the sets of all peers.
PendingAfterAcksAllPeers(p, msg) ==
    [q \in DOMAIN pendingAcks[p] |-> pendingAcks[p][q] \ Range(msg.acks)]

\* startReceivingCommands, the loop over msg.acks.
PendingAfterAcks(p, msg) ==
    [pendingAcks[p] EXCEPT ![msg.playerId] = @ \ Range(msg.acks)]

\* startReceivingCommands dispatching what it receives at once.
ReceiveEntitiesDispatched(entities, msg) ==
    processCommands(Flat([i \in 1..Len(TickKeys(msg.commands)) |->
                            msg.commands[TickKeys(msg.commands)[i]]]), entities)

\* startReceivingCommands: the command manager has no hold of the game
\* state, the entities are what they were.
ReceiveEntities(entities, msg) == entities

\* startReceivingCommands: the constructor made _acksToSend[id] and
\* _pendingAcks[id] for the ids of _otherPlayerIds only; for any other
\* msg.playerId the first .add or .delete is a call on undefined, a TypeError.
ReceiveThrows(p, msg) ==
    /\ msg.playerId \notin DOMAIN acksToSend[p]
    /\ (DOMAIN msg.commands # {} \/ msg.acks # <<>>)

\* The body of startReceivingCommands for one message.  When it throws, it
\* has stored at most the commands of the first tick key.
ReceiveMessage(p, msg) ==
    IF msg.playerId \in DOMAIN acksToSend[p]
    THEN /\ tickCommandsMap' = [tickCommandsMap EXCEPT ![p] =
                MergeCommands(@, TickKeys(msg.commands), msg.commands, msg.playerId, tick[p])]
         /\ acksToSend' = [acksToSend EXCEPT ![p][msg.playerId] =
                AddAll(@, TickKeys(msg.commands))]
         /\ pendingAcks' = [pendingAcks EXCEPT ![p] = PendingAfterAcks(p, msg)]
    ELSE /\ tickCommandsMap' = [tickCommandsMap EXCEPT ![p] =
                MergeCommands(@, IF DOMAIN msg.commands = {} THEN <<>>
                                 ELSE <<Head(TickKeys(msg.commands))>>,
                              msg.commands, msg.playerId, tick[p])]
         /\ UNCHANGED <<acksToSend, pendingAcks>>

(***************************************************************************)
(* Actions.                                                                *)
(***************************************************************************)
\* LocalInputManager.onMouseDown: the click replaces the tick's input.
MouseDown(p, point) ==
    /\ clicks < MaxClicks
    /\ gameTick[p] + commandDelay < horizon   \* its Move is dispatched within the horizon
    /\ input' = [input EXCEPT ![p] = point]
    /\ clicks' = clicks + 1
    /\ sent' = <<>>
    /\ received' = undefined
    /\ UNCHANGED <<commandDelay, cmVars, gameTick, state, pc, waitTime, timed, horizon, netVars,
                   executed, unitVars>>
    /\ api' = undefined

\* One pass of waitForTick's while loop: return if the tick is ready,
\* otherwise resend and sleep for `sleep`.
CheckTick(p, sleep) ==
    IF isTickReady(tickCommandsMap[p], gameTick[p], sortedPlayerIds[p])
    THEN /\ pc' = [pc EXCEPT ![p] = "resolved"]
         /\ waitTime' = [waitTime EXCEPT ![p] = 0]
         /\ sent' = <<>>
         /\ UNCHANGED <<pendingAcks, acksToSend, network>>
    ELSE LET msgs == sendCommands(p, tick[p] + commandDelay - 1, tickCommandsMap[p])
         IN  /\ pc' = [pc EXCEPT ![p] = "waiting"]
             /\ waitTime' = [waitTime EXCEPT ![p] = IF p \in timed THEN sleep ELSE 0]
             /\ sent' = msgs
             /\ pendingAcks' = [pendingAcks EXCEPT ![p] =
                                   PendingAfterSend(p, tick[p] + commandDelay - 1)]
             /\ acksToSend' = [acksToSend EXCEPT ![p] = AcksAfterSend(p)]
             /\ network' = Transmit(network, msgs)

\* Game.start: the loop calls waitForTick(this._tick).
WaitForTick(p) ==
    /\ pc[p] = "loop"
    /\ RoomToSend(p)
    /\ CheckTick(p, FirstWait)
    /\ UNCHANGED <<commandDelay, sortedPlayerIds, otherPlayerIds, tick, commandQueue,
                   tickCommandsMap, gameTick, state, timed, horizon, input, trigger, requests,
                   packetLoss, inFlightBound,
                   executed, clicks, unitVars>>
    /\ api' = undefined
    /\ received' = undefined

\* waitForTick: the timer of a sleeping waitForTick fires.
RetryWait(p) ==
    /\ pc[p] = "waiting"
    /\ RoomToSend(p)
    /\ CheckTick(p, NextWait(waitTime[p]))
    /\ UNCHANGED <<commandDelay, sortedPlayerIds, otherPlayerIds, tick, commandQueue,
                   tickCommandsMap, gameTick, state, timed, horizon, input, trigger, requests,
                   packetLoss, inFlightBound,
                   executed, clicks, unitVars>>
    /\ api' = undefined
    /\ received' = undefined

\* nextTick scheduling one tick too early.
ScheduleTickEarly(p) == tick[p] + commandDelay - 1

\* CommandManager.nextTick: the tick the enqueued commands are scheduled for.
ScheduleTick(p) == tick[p] + commandDelay

\* nextTick forgetting its this._tick++.
IncrementTickForgotten(t) == t

\* CommandManager.nextTick: this._tick++
IncrementTick(t) == t + 1

\* nextTick pruning one tick further back.
PruneTickLate(p) == tick[p] - commandDelay - 2

\* nextTick pruning the tick it has just executed.
PruneTickCurrent(p) == tick[p]

\* CommandManager.nextTick: the tick whose entry is deleted.
PruneTick(p) == tick[p] - commandDelay - 1

\* Game.update: what the entities enqueue, in the order of Object.values.
FrameEnqueues(entities, leftMouseClick) ==
    LET ids == Ascending(DOMAIN entities)
    IN  Flat([i \in 1..Len(ids) |-> UnitEnqueues(entities[ids[i]], leftMouseClick)])

\* The positions and targets of a game state.
Snapshot(entities) ==
    [e \in DOMAIN entities |->
        [position |-> entities[e].position, target |-> entities[e].target]]

\* Game.start, the body of the loop after waitForTick returned:
\* processCommands(getAllCommands(tick)), update, nextTick.
\* Each intermediate result is bound once, as a local constant of the code.
ExecuteTick(p) ==
    /\ pc[p] = "resolved"
    /\ gameTick[p] < horizon
    /\ RoomToSend(p)
    /\ \E map \in {tickCommandsMap[p]}, target \in {ScheduleTick(p)} :
       \E commands \in {getAllCommands(map, gameTick[p], sortedPlayerIds[p])} :
       \E dispatched \in {processCommands(commands, state[p])} :
       \E queue \in {commandQueue[p] \o FrameEnqueues(dispatched, input[p])} :
       \E updated \in {[e \in DOMAIN dispatched |-> UnitMove(dispatched[e])]} :
       \* CommandManager.nextTick
       \E scheduled \in {scheduleEnqueuedCommands(map, target, p, queue)} :
       \E msgs \in {sendCommands(p, target, scheduled)} :
           /\ state' = [state EXCEPT ![p] = updated]
           /\ input' = [input EXCEPT ![p] = undefined]
           /\ commandQueue' = [commandQueue EXCEPT ![p] = <<>>]
           /\ tickCommandsMap' = [tickCommandsMap EXCEPT ![p] =
                                     DeleteTick(scheduled, PruneTick(p))]
           /\ pendingAcks' = [pendingAcks EXCEPT ![p] = PendingAfterSend(p, target)]
           /\ acksToSend' = [acksToSend EXCEPT ![p] = AcksAfterSend(p)]
           /\ network' = Transmit(network, msgs)
           /\ sent' = msgs
           /\ executed' = [executed EXCEPT ![p] = Append(@,
                  [tick |-> gameTick[p],
                   present |-> IF gameTick[p] \in DOMAIN map
                               THEN DOMAIN map[gameTick[p]] ELSE {},
                   commands |-> commands,
                   enqueued |-> queue,
                   after |-> Snapshot(updated)])]
    /\ tick' = [tick EXCEPT ![p] = IncrementTick(@)]
    /\ gameTick' = [gameTick EXCEPT ![p] = @ + 1]
    /\ pc' = [pc EXCEPT ![p] = "loop"]
    /\ received' = undefined
    /\ UNCHANGED <<commandDelay, sortedPlayerIds, otherPlayerIds, waitTime, timed, horizon,
                   trigger, requests, packetLoss, inFlightBound, clicks, unitVars>>
    /\ api' = undefined

\* Network.sendMessage after its delay, the packet surviving the loss roll:
\* newMessage hands the message to the pending receive(), whose consumer
\* (startReceivingCommands) processes it and asks for the next one, unless
\* it threw: then the loop is over and no receive() is pending any more.
Deliver(m) ==
    /\ m \in InFlight
    /\ MayArrive(m)
    /\ network' = Arrived(network, m)
    /\ IF trigger[m.to]
       THEN /\ ReceiveMessage(m.to, m.msg)
            /\ state' = [state EXCEPT ![m.to] = ReceiveEntities(@, m.msg)]
            /\ trigger' = [trigger EXCEPT ![m.to] = ~ReceiveThrows(m.to, m.msg)]
            /\ requests' = [requests EXCEPT ![m.to] = IF ReceiveThrows(m.to, m.msg) THEN 0 ELSE 1]
            /\ received' = m
       ELSE /\ UNCHANGED <<tickCommandsMap, acksToSend, pendingAcks, trigger, requests, state>>
            /\ received' = undefined
    /\ sent' = <<>>
    /\ UNCHANGED <<commandDelay, sortedPlayerIds, otherPlayerIds, tick, commandQueue,
                   gameTick, pc, waitTime, timed, horizon, input,
                   packetLoss, inFlightBound, executed, clicks, unitVars>>
    /\ api' = undefined

\* Network.sendMessage after its delay, the packet lost.
LosePacket(m) ==
    /\ m \in InFlight
    /\ MayBeLost(m)
    /\ network' = Arrived(network, m)
    /\ sent' = <<>>
    /\ received' = undefined
    /\ UNCHANGED <<commandDelay, cmVars, gameVars, trigger, requests, packetLoss, inFlightBound, executed,
                   clicks, unitVars>>
    /\ api' = undefined

(***************************************************************************)
(* The game: two players, every socket lossy.                              *)
(***************************************************************************)
CommandDelays == {1, 2}
PlayerIds == {0, 1}
Lossy(ids) == [p \in ids |-> 50]

Init ==
    /\ NoUnit
    /\ \/ \E delay \in CommandDelays :
              Setup(PlayerIds, delay, Lossy(PlayerIds), {}, MaxTick, MaxInFlight)
       \* a shorter game on channels that can reorder messages
       \/ Setup(PlayerIds, 1, Lossy(PlayerIds), {}, MaxTick - 1, MaxInFlight + 1)

Next ==
    \/ \E p \in Players, point \in ClickPoints : MouseDown(p, point)
    \/ \E p \in Players : WaitForTick(p)
    \/ \E p \in Players : RetryWait(p)
    \/ \E p \in Players : ExecuteTick(p)
    \/ \E m \in InFlight : Deliver(m)
    \/ \E m \in InFlight : LosePacket(m)

Spec == Init /\ [][Next]_vars
(***************************************************************************)
(* The lockstep contract.                                                  *)
(***************************************************************************)
\* The ticks instance p has executed, and the record of tick t on p.
Done(p) == Len(executed[p])
Record(p, t) == executed[p][t + 1]
CommonTicks(p, q) == 0..((IF Done(p) < Done(q) THEN Done(p) ELSE Done(q)) - 1)

\* The commands of `commands` that player a issued.
FromPlayer(commands, a) == SelectSeq(commands, LAMBDA c : c.playerId = a)
HasMove(commands) == \E i \in 1..Len(commands) : commands[i].type = "move"

\* C1: waitForTick(t) returns only in a state where the tick map holds an
\* entry for tick t from every participant, and every tick was executed
\* with the entries of all participants present.
C1_LockstepBarrier ==
    \A p \in Players :
        /\ pc[p] = "resolved" =>
              /\ gameTick[p] \in DOMAIN tickCommandsMap[p]
              /\ DOMAIN tickCommandsMap[p][gameTick[p]] = Players
        /\ \A t \in 0..(Done(p) - 1) : Record(p, t).present = Players

\* waitForTick has returned on an instance for a tick that needed the
\* commands of a remote player, and that tick was executed.
C1_Witness ==
    \E p \in Players :
        /\ pc[p] = "resolved"
        /\ gameTick[p] > commandDelay
        /\ Done(p) > commandDelay

\* C2: for any two instances and any tick both have executed, getAllCommands
\* returned the same command sequence on both at execution time.
C2_SameCommands ==
    \A p \in Players, q \in Players :
        \A t \in CommonTicks(p, q) : Record(p, t).commands = Record(q, t).commands

\* Two instances have executed the same tick past the command delay, with
\* a Move among its commands.
C2_Witness ==
    \E p \in Players : \E q \in Players \ {p} :
        \E t \in CommonTicks(p, q) :
            t >= commandDelay /\ HasMove(Record(p, t).commands)

\* C3: for any two instances and any tick both have completed, every
\* unit's position and target after that tick are equal on the two.
C3_Determinism ==
    \A p \in Players, q \in Players :
        /\ \A t \in CommonTicks(p, q) : Record(p, t).after = Record(q, t).after
        /\ gameTick[p] = gameTick[q] => Snapshot(state[p]) = Snapshot(state[q])

\* Two instances have completed a tick in which a unit left its place,
\* on the instance that owns it and on one that does not.
C3_Witness ==
    \E p \in Players : \E q \in Players \ {p} :
        \E t \in CommonTicks(p, q) :
            /\ t > 0
            /\ Record(p, t).after[p].position # Record(p, 0).after[p].position
            /\ Record(q, t).after[p].target # undefined

\* What player a scheduled for tick t: Noops below the command delay, then
\* what a enqueued while it processed tick t - commandDelay.
ScheduledBy(a, t) ==
    IF t < commandDelay \/ Record(a, t - commandDelay).enqueued = <<>>
    THEN <<NoopCommand(a)>>
    ELSE Record(a, t - commandDelay).enqueued

\* C6: the commands of player a dispatched during tick t, on every
\* instance that executes tick t, a included, are exactly the commands a
\* enqueued while it processed tick t - commandDelay.
C6_CommandDelay ==
    \A q \in Players, a \in Players :
        \A t \in 0..(Done(q) - 1) :
            /\ t >= commandDelay => Done(a) > t - commandDelay
            /\ FromPlayer(Record(q, t).commands, a) = ScheduledBy(a, t)

\* A Move was enqueued on an instance during tick t, and tick
\* t + commandDelay was executed by the issuer and by another instance.
C6_Witness ==
    \E a \in Players : \E q \in Players \ {a} :
        \E t \in 0..(Done(a) - 1) :
            /\ HasMove(Record(a, t).enqueued)
            /\ Done(a) > t + commandDelay
            /\ Done(q) > t + commandDelay
            /\ HasMove(FromPlayer(Record(q, t + commandDelay).commands, a))

(***************************************************************************)
(* Peers that send what their command manager never would: Socket.send     *)
(* takes any message, so a delivery for a (tick, playerId) pair can carry   *)
(* a payload that differs from the one stored for the pair.                 *)
(***************************************************************************)
\* What the last player may send on its own: a Move for the first tick
\* that is not filled at startup.
ForeignMessages ==
    {[from |-> q, to |-> p,
      msg |-> [playerId |-> q,
               commands |-> (t :> <<MoveCommand(q, q, Point2D(50, 100))>>),
               acks |-> <<>>]] :
        p \in PlayerIds, q \in {SetMax(PlayerIds)}, t \in {commandDelay}}

\* Socket.send with a message of the caller's own making, to any socket,
\* the caller's own included: send and sendMessage test neither.
SendForeign(m) ==
    /\ HasRoom(network, m)
    /\ network' = Transmit(network, <<m>>)
    /\ sent' = <<>>
    /\ received' = undefined
    /\ UNCHANGED <<commandDelay, cmVars, gameVars, trigger, requests, packetLoss, inFlightBound, executed,
                   clicks, unitVars>>
    /\ api' = undefined

NextForeign ==
    \/ \E p \in Players : WaitForTick(p)
    \/ \E p \in Players : RetryWait(p)
    \/ \E p \in Players : ExecuteTick(p)
    \/ \E m \in InFlight : Deliver(m)
    \/ \E m \in InFlight : LosePacket(m)
    \/ \E m \in ForeignMessages : SendForeign(m)

InitForeign ==
    /\ NoUnit
    /\ Setup(PlayerIds, 1, Lossy(PlayerIds), {}, MaxTick - 1, MaxInFlight)

SpecForeign == InitForeign /\ [][NextForeign]_vars

\* C7: once the tick map of an instance holds a command list for a pair
\* (tick, playerId), no step changes that list, whatever is delivered for
\* the pair, for as long as the map has an entry for the tick.
C7_FirstWriteWins ==
    [][\A p \in Players : \A t \in DOMAIN tickCommandsMap[p] :
          t \in DOMAIN tickCommandsMap'[p] =>
              \A q \in DOMAIN tickCommandsMap[p][t] :
                  /\ q \in DOMAIN tickCommandsMap'[p][t]
                  /\ tickCommandsMap'[p][t][q] = tickCommandsMap[p][t][q]]_vars

\* The receive task has just processed a message whose payload for a
\* current pair (tick, playerId) differs from the list the map holds.
C7_Witness ==
    /\ received # undefined
    /\ \E t \in DOMAIN received.msg.commands :
          /\ t >= tick[received.to]
          /\ t \in DOMAIN tickCommandsMap[received.to]
          /\ received.msg.playerId \in DOMAIN tickCommandsMap[received.to][t]
          /\ received.msg.commands[t] # <<>>
          /\ tickCommandsMap[received.to][t][received.msg.playerId]
                # received.msg.commands[t]

(***************************************************************************)
(* Three players, the socket of the last one losing every packet.          *)
(***************************************************************************)
ThreePlayerIds == PlayerIds \cup {Cardinality(PlayerIds)}
LostPeer == SetMax(ThreePlayerIds)
PeerLoss == [p \in ThreePlayerIds |-> IF p = LostPeer THEN 100 ELSE 50]

\* The steps of a game without clicks.
NextQuiet ==
    \/ \E p \in Players : WaitForTick(p)
    \/ \E p \in Players : RetryWait(p)
    \/ \E p \in Players : ExecuteTick(p)
    \/ \E m \in InFlight : Deliver(m)
    \/ \E m \in InFlight : LosePacket(m)

InitPeerLoss ==
    /\ NoUnit
    /\ Setup(ThreePlayerIds, 1, PeerLoss, {}, MaxTick, MaxInFlight)

SpecPeerLoss == InitPeerLoss /\ [][NextQuiet]_vars

\* C5: when every message of peer P is dropped, no other instance gets
\* past the wait for a tick from commandDelay on: its tick counter never
\* exceeds commandDelay, no tick is executed without P's entry, and an
\* instance waiting for such a tick goes on waiting.
C5_PermanentLossBlocks ==
    /\ [](\A p \in Players \ {LostPeer} :
            /\ tick[p] <= commandDelay
            /\ gameTick[p] <= commandDelay
            /\ pc[p] = "resolved" => gameTick[p] < commandDelay
            /\ \A t \in 0..(Done(p) - 1) : LostPeer \in Record(p, t).present)
    /\ [][\A p \in Players \ {LostPeer} :
            (pc[p] = "waiting" /\ gameTick[p] >= commandDelay) =>
                (pc'[p] = "waiting" /\ gameTick'[p] = gameTick[p])]_vars

\* An instance waits for the first tick that needs P's commands, holds
\* the entries of everyone but P for it, and nothing is in flight.
C5_Witness ==
    \E p \in Players \ {LostPeer} :
        /\ packetLoss[LostPeer] = 100
        /\ pc[p] = "waiting"
        /\ gameTick[p] = commandDelay
        /\ commandDelay \in DOMAIN tickCommandsMap[p]
        /\ DOMAIN tickCommandsMap[p][commandDelay] = Players \ {LostPeer}
        /\ network = EmptyBag

\* C8: right after the receive task has processed a message from peer P,
\* no tick in the message's acks is in the instance's pending-ack set for
\* P, and the pending-ack sets it keeps for other peers, like those of
\* other instances, are what they were.
C8_AckReceipt ==
    [][received' # undefined =>
          LET p == received'.to
              from == received'.msg.playerId
          IN  /\ Range(received'.msg.acks) \cap pendingAcks'[p][from] = {}
              /\ pendingAcks'[p][from] = pendingAcks[p][from] \ Range(received'.msg.acks)
              /\ \A q \in DOMAIN pendingAcks[p] \ {from} :
                    pendingAcks'[p][q] = pendingAcks[p][q]
              /\ \A r \in Players \ {p} : pendingAcks'[r] = pendingAcks[r]]_vars

\* The receive task has just processed a message acking a tick that is
\* no longer pending for the sender and still pending for another peer.
C8_Witness ==
    /\ received # undefined
    /\ \E t \in Range(received.msg.acks) :
          /\ t \notin pendingAcks[received.to][received.msg.playerId]
          /\ \E q \in DOMAIN pendingAcks[received.to] \ {received.msg.playerId} :
                t \in pendingAcks[received.to][q]

\* The instance whose command manager sent the messages of `msgs`.
Sender(msgs) == msgs[1].msg.playerId
NoDuplicates(seq) == Cardinality(Range(seq)) = Len(seq)

\* C9: processing a message from peer P adds the ticks of its commands to
\* the acks to send to P and to no other peer's; a send hands every peer
\* one message whose acks are the acks then to send to that peer, each
\* listed once, and leaves no acks to send; and the acks to send to a peer
\* change in no other step, so that a tick is listed again only after it
\* was received again.
C9_AckEmission ==
    [][/\ received' # undefined =>
             LET p == received'.to
                 from == received'.msg.playerId
             IN  /\ Range(acksToSend'[p][from]) =
                        Range(acksToSend[p][from]) \cup DOMAIN received'.msg.commands
                 /\ NoDuplicates(acksToSend'[p][from])
                 /\ \A q \in DOMAIN acksToSend[p] \ {from} :
                       acksToSend'[p][q] = acksToSend[p][q]
       /\ sent' # <<>> =>
             LET p == Sender(sent')
             IN  /\ Len(sent') = Cardinality(Players \ {p})
                 /\ {sent'[i].to : i \in 1..Len(sent')} = Players \ {p}
                 /\ \A i \in 1..Len(sent') :
                       /\ sent'[i].msg.playerId = p
                       /\ sent'[i].msg.acks = acksToSend[p][sent'[i].to]
                       /\ NoDuplicates(sent'[i].msg.acks)
                       /\ acksToSend'[p][sent'[i].to] = <<>>
       /\ \A p \in Players : \A q \in DOMAIN acksToSend[p] :
             acksToSend'[p][q] # acksToSend[p][q] =>
                \/ /\ received' # undefined
                   /\ received'.to = p
                   /\ received'.msg.playerId = q
                \/ /\ sent' # <<>>
                   /\ Sender(sent') = p]_vars

\* An instance has just sent a message that acks a tick to the peer it
\* received the tick from, and a message to another peer that does not.
C9_Witness ==
    /\ sent # <<>>
    /\ \E i \in 1..Len(sent), j \in 1..Len(sent) :
          /\ sent[i].to # sent[j].to
          /\ \E t \in Range(sent[i].msg.acks) : t \notin Range(sent[j].msg.acks)
          /\ acksToSend[Sender(sent)][sent[i].to] = <<>>

(***************************************************************************)
(* Fair-lossy channels and loops that keep being scheduled.                *)
(***************************************************************************)
InitFair ==
    /\ NoUnit
    /\ Setup(PlayerIds, 1, Lossy(PlayerIds), {}, MaxTick - 1, MaxInFlight)

\* The loop of every instance goes on whenever it can, and a channel that
\* carries a message again and again delivers one again and again.
Fairness ==
    /\ \A p \in PlayerIds : WF_vars(WaitForTick(p) \/ RetryWait(p) \/ ExecuteTick(p))
    /\ \A from \in PlayerIds : \A to \in PlayerIds \ {from} :
          SF_vars(\E m \in Channel(network, from, to) : Deliver(m))

SpecFair == InitFair /\ [][NextQuiet]_vars /\ Fairness

\* C4: with fair-lossy channels and loops that keep being scheduled,
\* every instance eventually gets past waitForTick(t) and executes tick t,
\* for every tick t of the horizon.
C4_Progress == \A p \in PlayerIds : <>(gameTick[p] = horizon /\ Done(p) = horizon)

\* Every instance has executed every tick of the horizon, ticks past the
\* command delay among them, and a resend had been needed on the way.
C4_Witness ==
    /\ horizon > commandDelay
    /\ \A p \in Players : Done(p) = horizon
    /\ \E p \in Players : \E q \in DOMAIN pendingAcks[p] : Cardinality(pendingAcks[p][q]) > 1

(***************************************************************************)
(* A unit on its own: one Move command, then update after update.          *)
(***************************************************************************)
\* Where the unit stands at first and where the Move may send it.
UnitStarts == {[x |-> 50, y |-> 50], [x |-> 100, y |-> 100]}
MoveTargets == {[x |-> 50, y |-> 50], [x |-> 53, y |-> 54], [x |-> 50, y |-> 62],
                [x |-> 90, y |-> 80], [x |-> 60, y |-> 70], [x |-> 83, y |-> 106],
                [x |-> 100, y |-> 200], [x |-> 63, y |-> 134]}

InitUnit ==
    /\ Setup(PlayerIds, 2, Lossy(PlayerIds), {}, MaxTick, MaxInFlight)
    /\ \E start \in UnitStarts :
          unit = Unit(0, 0, TRUE, Point2D(start.x, start.y), PLAYER_SPEED)
    /\ moved = undefined
    /\ updates = 0

\* Unit.processCommand on a Move command of the unit's owner.
IssueMove(point) ==
    /\ moved = undefined
    /\ unit' = processCommand(unit, MoveCommand(unit.playerId, unit.id,
                                                Point2D(point.x, point.y)))
    /\ moved' = [from |-> unit.position, to |-> unit'.target]
    /\ UNCHANGED <<updates, protocolVars, logVars>>

\* Unit.update in a frame without a click, while the unit has a target.
UpdateUnit ==
    /\ moved # undefined
    /\ unit.target # undefined
    /\ unit' = UnitMove(unit)
    /\ updates' = updates + 1
    /\ UNCHANGED <<moved, protocolVars, logVars>>

NextUnit ==
    \/ \E point \in MoveTargets : IssueMove(point)
    \/ UpdateUnit

SpecUnit == InitUnit /\ [][NextUnit]_vars

\* The whole number a Decimal with an integer value stands for.
RECURSIVE DigitsValue(_)
DigitsValue(d) == IF d = <<>> THEN 0 ELSE 10 * DigitsValue(SubSeq(d, 1, Len(d) - 1)) + d[Len(d)]
IntegerOf(x) == x.s * DigitsValue(x.d \o Zeros(x.e))

\* The square of the distance D of the Move, and ceil(D / S) for speed S:
\* the least n with (n S)^2 >= D^2.
MoveX == IntegerOf(moved.to.x) - IntegerOf(moved.from.x)
MoveY == IntegerOf(moved.to.y) - IntegerOf(moved.from.y)
SquaredDistance == MoveX * MoveX + MoveY * MoveY
CeilSteps == SetMin({n \in 0..(SetMax({MoveX, -MoveX}) + SetMax({MoveY, -MoveY})) :
                        n * n * PlayerSpeed * PlayerSpeed >= SquaredDistance})

\* The unit has arrived, on the target exactly and with the target cleared,
\* one update after the ceil(D / S) updates.
C10_Witness ==
    /\ moved # undefined
    /\ SquaredDistance > 0
    /\ unit.target = undefined
    /\ unit.position = moved.to
    /\ updates = CeilSteps + 1

\* C10: a unit with speed S that is given a Move to a target at distance D
\* and no later Move stands on the target, with the target cleared, after
\* exactly ceil(D / S) updates: it is still on its way before that many
\* updates, and has arrived, at exactly the target, once they are done.
C10_UnitConvergence ==
    (moved # undefined /\ SquaredDistance > 0) =>
        /\ updates < CeilSteps => unit.target # undefined
        /\ updates >= CeilSteps =>
              /\ unit.target = undefined
              /\ unit.position = moved.to
              /\ updates = CeilSteps

(***************************************************************************)
(* Every socket losing every packet.                                       *)
(***************************************************************************)
Blackout(ids) == [p \in ids |-> 100]

\* The steps of a game no message of which arrives.
NextBlackout ==
    \/ \E p \in Players, point \in ClickPoints : MouseDown(p, point)
    \/ \E p \in Players : WaitForTick(p)
    \/ \E p \in Players : RetryWait(p)
    \/ \E p \in Players : ExecuteTick(p)
    \/ \E m \in InFlight : LosePacket(m)

InitBlackout ==
    /\ NoUnit
    /\ \E delay \in CommandDelays :
          Setup(PlayerIds, delay, Blackout(PlayerIds), {}, MaxTick, MaxInFlight)

SpecBlackout == InitBlackout /\ [][NextBlackout]_vars

\* C12: from the initial state on, every tick below commandDelay that an
\* instance has not executed yet holds exactly one Noop of every
\* participant and is ready; waitForTick never sleeps for such a tick and
\* the tick is executed with those Noops, though no message was received.
C12_StartupTicks ==
    \A p \in Players :
        /\ \A t \in gameTick[p]..(commandDelay - 1) :
              /\ t \in DOMAIN tickCommandsMap[p]
              /\ tickCommandsMap[p][t] = [q \in Players |-> <<NoopCommand(q)>>]
              /\ isTickReady(tickCommandsMap[p], t, sortedPlayerIds[p])
        /\ pc[p] = "waiting" => gameTick[p] >= commandDelay
        /\ \A t \in 0..(Done(p) - 1) :
              t < commandDelay =>
                  /\ Record(p, t).present = Players
                  /\ Range(Record(p, t).commands) = {NoopCommand(q) : q \in Players}
                  /\ Len(Record(p, t).commands) = Cardinality(Players)
        /\ acksToSend[p] = [q \in Players \ {p} |-> <<>>]

\* Every packet is lost, and an instance has executed two startup ticks
\* and now sleeps in the wait for the first tick that needs a message.
C12_Witness ==
    /\ \A p \in Players : packetLoss[p] = 100
    /\ \E p \in Players :
          /\ Done(p) = commandDelay
          /\ commandDelay > 1
          /\ pc[p] = "waiting"
          /\ gameTick[p] = commandDelay

(***************************************************************************)
(* A longer game of two players without clicks.                            *)
(***************************************************************************)
LongGame == MaxTick + 2

InitLong ==
    /\ NoUnit
    /\ Setup(PlayerIds, 1, Lossy(PlayerIds), {}, LongGame, MaxInFlight)

SpecLong == InitLong /\ [][NextQuiet]_vars

\* What the instance with execution record `records` scheduled for tick t.
ScheduledIn(records, a, t) ==
    IF t < commandDelay \/ records[t - commandDelay + 1].enqueued = <<>>
    THEN <<NoopCommand(a)>>
    ELSE records[t - commandDelay + 1].enqueued

\* C18: each message that nextTick at tick T sends to peer P carries the
\* list this instance scheduled for tick T + commandDelay and, for every
\* tick pending for P when the call was made, the list this instance
\* scheduled for that tick; and T + commandDelay is pending for every
\* peer right after the call.
C18_RedundantRetransmission ==
    [][\A p \in Players :
          tick'[p] = tick[p] + 1 =>
              /\ {sent'[i].to : i \in 1..Len(sent')} = Players \ {p}
              /\ \A i \in 1..Len(sent') :
                    LET commands == sent'[i].msg.commands
                        P == sent'[i].to
                    IN  /\ tick[p] + commandDelay \in DOMAIN commands
                        /\ commands[tick[p] + commandDelay] =
                               ScheduledIn(executed'[p], p, tick[p] + commandDelay)
                        /\ \A k \in pendingAcks[p][P] :
                              /\ k \in DOMAIN commands
                              /\ commands[k] = ScheduledIn(executed[p], p, k)
              /\ \A P \in Players \ {p} : tick[p] + commandDelay \in pendingAcks'[p][P]]_vars

\* C13: whenever nextTick of an instance deletes the tick-map entry of a
\* tick k, the current tick of every other instance is greater than k.
C13_PruningSafe ==
    [][\A p \in Players :
          \A k \in DOMAIN tickCommandsMap[p] \ DOMAIN tickCommandsMap'[p] :
              \A q \in Players \ {p} : tick[q] > k /\ gameTick[q] > k]_vars

\* An instance has pruned an entry while a peer is as far behind it as the
\* wait for the peer's commands allows.
C13_Witness ==
    \E p \in Players : \E q \in Players \ {p} :
        /\ tick[p] >= commandDelay + 2
        /\ (tick[p] - commandDelay - 2) \notin DOMAIN tickCommandsMap[p]
        /\ (tick[p] - commandDelay - 1) \in DOMAIN tickCommandsMap[p]
        /\ tick[q] = tick[p] - commandDelay

\* What an instance enqueues in a tick: the Move of its own unit to the
\* point clicked since the previous tick, if any.
Enqueued(p, click) ==
    IF click = undefined THEN <<>>
    ELSE <<MoveCommand(p, p, Point2D(click.x, click.y))>>

\* C17: nextTick at tick T stores under (T + commandDelay, self) the
\* commands enqueued since the previous nextTick, or one Noop when there
\* are none, and leaves the queue empty; and at every tick boundary an
\* instance at tick T holds a non-empty own entry for every tick from T to
\* T + commandDelay - 1.
C17_OneCommandSetPerTick ==
    /\ [][\A p \in Players :
             tick'[p] = tick[p] + 1 =>
                 /\ (tick[p] + commandDelay) \in DOMAIN tickCommandsMap'[p]
                 /\ p \in DOMAIN tickCommandsMap'[p][tick[p] + commandDelay]
                 /\ tickCommandsMap'[p][tick[p] + commandDelay][p] =
                        (IF commandQueue[p] \o Enqueued(p, input[p]) = <<>>
                         THEN <<NoopCommand(p)>>
                         ELSE commandQueue[p] \o Enqueued(p, input[p]))
                 /\ commandQueue'[p] = <<>>]_vars
    /\ [](\A p \in Players :
             \A t \in tick[p]..(tick[p] + commandDelay - 1) :
                 /\ t \in DOMAIN tickCommandsMap[p]
                 /\ p \in DOMAIN tickCommandsMap[p][t]
                 /\ tickCommandsMap[p][t][p] # <<>>)

\* An instance past the startup ticks holds, for the two ticks ahead, a
\* Move it enqueued and the Noop of a tick without input.
C17_Witness ==
    \E p \in Players :
        /\ commandDelay > 1
        /\ tick[p] >= commandDelay
        /\ commandQueue[p] = <<>>
        /\ \E t \in tick[p]..(tick[p] + commandDelay - 1) :
              HasMove(tickCommandsMap[p][t][p])
        /\ \E t \in tick[p]..(tick[p] + commandDelay - 1) :
              tickCommandsMap[p][t][p] = <<NoopCommand(p)>>

\* C20: processing an arriving message neither creates nor changes the
\* entry of a tick below the receiver's current tick, and stores the
\* commands it carries for a tick >= the current tick under
\* (tick, senderId) when that pair has no entry yet.
C20_StaleDiscarded ==
    [][received' # undefined =>
          LET p == received'.to
              from == received'.msg.playerId
              commands == received'.msg.commands
              old == tickCommandsMap[p]
              new == tickCommandsMap'[p]
          IN  /\ \A k \in 0..(tick[p] - 1) :
                    /\ k \in DOMAIN new <=> k \in DOMAIN old
                    /\ k \in DOMAIN old => new[k] = old[k]
              /\ \A k \in DOMAIN commands :
                    (k >= tick[p] /\ ~(k \in DOMAIN old /\ from \in DOMAIN old[k])) =>
                        /\ k \in DOMAIN new
                        /\ from \in DOMAIN new[k]
                        /\ new[k][from] = commands[k]]_vars

\* The receive task has just processed a message that carries commands for
\* a tick the receiver has already pruned and commands it stored for a
\* tick not below its current one.
C20_Witness ==
    /\ received # undefined
    /\ \E k \in DOMAIN received.msg.commands :
          /\ k < tick[received.to]
          /\ received.msg.commands[k] # <<>>
          /\ k \notin DOMAIN tickCommandsMap[received.to]
    /\ \E k \in DOMAIN received.msg.commands :
          /\ k >= tick[received.to]
          /\ tickCommandsMap[received.to][k][received.msg.playerId] = received.msg.commands[k]

(***************************************************************************)
(* A command manager asked for the commands of any tick at any time, in a  *)
(* game of two players whose ids have one and two digits.                  *)
(***************************************************************************)
WidePlayerIds == {2, 10}

\* CommandManager.getAllCommands(t) called on instance p: it only reads.
GetAllCommands(p, t) ==
    /\ api' = [call |-> "getAllCommands", playerId |-> p, tick |-> t,
               value |-> getAllCommands(tickCommandsMap[p], t, sortedPlayerIds[p])]
    /\ sent' = <<>>
    /\ received' = undefined
    /\ UNCHANGED <<protocolVars, executed, clicks, unitVars>>

NextQuery ==
    \/ \E p \in Players : WaitForTick(p)
    \/ \E p \in Players : RetryWait(p)
    \/ \E p \in Players : ExecuteTick(p)
    \/ \E m \in InFlight : Deliver(m)
    \/ \E m \in InFlight : LosePacket(m)
    \/ \E p \in Players : \E t \in 0..(horizon + commandDelay) : GetAllCommands(p, t)

InitQuery ==
    /\ NoUnit
    /\ Setup(WidePlayerIds, 1, Lossy(WidePlayerIds), {}, MaxTick - 1, MaxInFlight)

SpecQuery == InitQuery /\ [][NextQuery]_vars

\* The lists tick map `map` holds for tick t, concatenated in ascending
\* numeric order of the player ids `ids`.
InNumericOrder(map, t, ids) ==
    IF t \in DOMAIN map
    THEN Flat([i \in 1..Cardinality(ids) |->
                  IF Ascending(ids)[i] \in DOMAIN map[t]
                  THEN map[t][Ascending(ids)[i]] ELSE <<>>])
    ELSE <<>>

\* C19: getAllCommands(t) returns the participants' lists for tick t
\* concatenated in ascending numeric player id order, a participant
\* without an entry contributing nothing and a tick without an entry
\* giving the empty sequence, and the call changes neither the tick map
\* nor the ack sets.
C19_GetAllCommands ==
    /\ []((api # undefined /\ api.call = "getAllCommands") =>
             api.value = InNumericOrder(tickCommandsMap[api.playerId], api.tick, Players))
    /\ [][(api' # undefined /\ api'.call = "getAllCommands") =>
             UNCHANGED <<tickCommandsMap, acksToSend, pendingAcks>>]_vars

(***************************************************************************)
(* A Network on its own (network.ts): sockets are created at any time,     *)
(* anyone holding a socket sends what and where it likes, and the consumer *)
(* of a socket asks its receive() for the next message when it pleases.    *)
(* packetLoss holds the options of the registered sockets, trigger the     *)
(* state of the inbox of each, requests the queue of its receive().        *)
(***************************************************************************)
SocketIds == {0, 1}
LossOptions == {0, 50}

\* The messages a socket may be given to send.
SocketMessages ==
    {[playerId |-> from, commands |-> (t :> <<NoopCommand(from)>>), acks |-> <<>>] :
        from \in SocketIds, t \in {0}}

\* createSocket that replaces the socket an id already has.
createSocketReplace(sockets, inboxes, generators, playerId, options) ==
    [error |-> FALSE,
     sockets |-> (playerId :> options) @@ sockets,
     inboxes |-> (playerId :> FALSE) @@ inboxes,
     generators |-> (playerId :> 0) @@ generators]

\* Network.createSocket: an error if the id has a socket, else the socket
\* with its receive() generator, not asked yet, and its inbox are registered.
createSocket(sockets, inboxes, generators, playerId, options) ==
    IF playerId \in DOMAIN sockets
    THEN [error |-> TRUE, sockets |-> sockets, inboxes |-> inboxes,
          generators |-> generators]
    ELSE [error |-> FALSE,
          sockets |-> (playerId :> options) @@ sockets,
          inboxes |-> (playerId :> FALSE) @@ inboxes,
          generators |-> (playerId :> 0) @@ generators]

\* sendMessage that does not look for the receiver's socket.
sendMessageUnchecked(sockets, net, senderPlayerId, receiverPlayerId, message) ==
    [error |-> FALSE,
     network |-> Transmit(net, <<[from |-> senderPlayerId, to |-> receiverPlayerId,
                                  msg |-> message]>>)]

\* Network.sendMessage up to its delay: an error if the receiver has no
\* socket, else the message is on its way, with a timer of its own.
sendMessage(sockets, net, senderPlayerId, receiverPlayerId, message) ==
    IF receiverPlayerId \notin DOMAIN sockets
    THEN [error |-> TRUE, network |-> net]
    ELSE [error |-> FALSE,
          network |-> Transmit(net, <<[from |-> senderPlayerId, to |-> receiverPlayerId,
                                       msg |-> message]>>)]

CreateSocket(playerId, options) ==
    /\ \E created \in {createSocket(packetLoss, trigger, requests, playerId, options)} :
          /\ packetLoss' = created.sockets
          /\ trigger' = created.inboxes
          /\ requests' = created.generators
          /\ api' = [call |-> "createSocket", playerId |-> playerId, options |-> options,
                     error |-> created.error]
    /\ sent' = <<>>
    /\ received' = undefined
    /\ UNCHANGED <<commandDelay, cmVars, gameVars, network, inFlightBound, executed, clicks,
                   unitVars>>

\* Socket "set options", or the settings listener writing the options
\* object the socket holds: the loss of a registered socket changes.
SetOptions(playerId, options) ==
    /\ playerId \in DOMAIN packetLoss
    /\ packetLoss' = [packetLoss EXCEPT ![playerId] = options]
    /\ api' = [call |-> "setOptions", playerId |-> playerId, options |-> options]
    /\ sent' = <<>>
    /\ received' = undefined
    /\ UNCHANGED <<commandDelay, cmVars, gameVars, network, trigger, requests, inFlightBound, executed,
                   clicks, unitVars>>

\* Socket.send(targetPlayerId, message) on the socket of senderPlayerId,
\* whatever message.playerId says.
Send(senderPlayerId, receiverPlayerId, message) ==
    /\ senderPlayerId \in DOMAIN packetLoss
    /\ HasRoom(network, [from |-> senderPlayerId, to |-> receiverPlayerId, msg |-> message])
    /\ \E outcome \in {sendMessage(packetLoss, network, senderPlayerId, receiverPlayerId,
                                    message)} :
          /\ network' = outcome.network
          /\ api' = [call |-> "send", from |-> senderPlayerId, to |-> receiverPlayerId,
                     msg |-> message, error |-> outcome.error]
    /\ sent' = <<>>
    /\ received' = undefined
    /\ UNCHANGED <<commandDelay, cmVars, gameVars, trigger, requests, packetLoss, inFlightBound, executed,
                   clicks, unitVars>>

\* The consumer of a socket calls next() on its receive().  An idle
\* generator runs up to its new Promise, which sets trigger; a generator
\* that is awaiting a message queues the request.
ReceiveNext(playerId) ==
    /\ playerId \in DOMAIN trigger
    /\ requests[playerId] < MaxRequests
    /\ requests' = [requests EXCEPT ![playerId] = @ + 1]
    /\ trigger' = [trigger EXCEPT ![playerId] = TRUE]
    /\ api' = [call |-> "next", playerId |-> playerId]
    /\ sent' = <<>>
    /\ received' = undefined
    /\ UNCHANGED <<commandDelay, cmVars, gameVars, network, packetLoss, inFlightBound, executed,
                   clicks, unitVars>>

\* Network.sendMessage after its delay, the packet surviving the loss roll:
\* newMessage resolves the pending receive() with the message, if there is
\* one, and does nothing otherwise.  The generator yields the message to
\* the oldest request and, if another request is queued, goes on to its
\* next Promise within the same task, which sets trigger again.
NewMessage(m) ==
    /\ m \in InFlight
    /\ MayArrive(m)
    /\ network' = Arrived(network, m)
    /\ IF trigger[m.to]
       THEN /\ received' = m
            /\ requests' = [requests EXCEPT ![m.to] = @ - 1]
            /\ trigger' = [trigger EXCEPT ![m.to] = requests[m.to] > 1]
       ELSE /\ received' = undefined
            /\ UNCHANGED <<trigger, requests>>
    /\ api' = [call |-> "newMessage", value |-> m]
    /\ sent' = <<>>
    /\ UNCHANGED <<commandDelay, cmVars, gameVars, packetLoss, inFlightBound, executed, clicks,
                   unitVars>>

NextNetwork ==
    \/ \E playerId \in SocketIds, options \in LossOptions : CreateSocket(playerId, options)
    \/ \E playerId \in SocketIds, options \in LossOptions : SetOptions(playerId, options)
    \/ \E from \in SocketIds, to \in SocketIds, message \in SocketMessages :
          Send(from, to, message)
    \/ \E playerId \in SocketIds : ReceiveNext(playerId)
    \/ \E m \in InFlight : NewMessage(m)
    \/ \E m \in InFlight : LosePacket(m)

\* new Network(): no socket, no inbox, and no game.
InitNetwork ==
    /\ NoUnit
    /\ Setup({}, 1, <<>>, {}, 0, MaxInFlight + 1)

SpecNetwork == InitNetwork /\ [][NextNetwork]_vars

\* C14: createSocket for an id without a socket succeeds and registers the
\* socket with its options and its inbox, leaving the others as they are;
\* createSocket for an id that has a socket fails with an error and
\* changes neither the sockets nor the inboxes.
C14_CreateSocket ==
    [][(api' # undefined /\ api'.call = "createSocket") =>
          IF api'.playerId \in DOMAIN packetLoss
          THEN /\ api'.error
               /\ packetLoss' = packetLoss
               /\ trigger' = trigger
               /\ requests' = requests
          ELSE /\ ~api'.error
               /\ DOMAIN packetLoss' = DOMAIN packetLoss \cup {api'.playerId}
               /\ DOMAIN trigger' = DOMAIN trigger \cup {api'.playerId}
               /\ packetLoss'[api'.playerId] = api'.options
               /\ \A other \in DOMAIN packetLoss :
                     /\ packetLoss'[other] = packetLoss[other]
                     /\ trigger'[other] = trigger[other]
                     /\ requests'[other] = requests[other]]_vars

\* A second createSocket for an id, with other options, has just failed,
\* and the id still has its first options and its pending receive().
C14_Witness ==
    /\ api # undefined
    /\ api.call = "createSocket"
    /\ api.error
    /\ packetLoss[api.playerId] # api.options
    /\ trigger[api.playerId]

\* C15: a send to an id without a socket ends in an error, the message
\* enters no delay, reaches no receive() and touches no inbox; so that
\* every message on its way has a registered target.
C15_SendUnregistered ==
    /\ [][(api' # undefined /\ api'.call = "send" /\ api'.to \notin DOMAIN packetLoss) =>
             /\ api'.error
             /\ network' = network
             /\ received' = undefined
             /\ trigger' = trigger
             /\ requests' = requests]_vars
    /\ [](\A m \in InFlight : m.to \in DOMAIN packetLoss)

\* A send to an id without a socket has just failed, while a message the
\* same socket sent to itself is on its way.
C15_Witness ==
    /\ api # undefined
    /\ api.call = "send"
    /\ api.error
    /\ api.to \notin DOMAIN packetLoss
    /\ \E m \in InFlight : m.from = api.from /\ m.to = api.from

\* C11: every message that survives the loss roll is yielded by the
\* receive() of its target, also when it arrives before the consumer has
\* asked for the next message; the handoff discards nothing.
C11_NoInboundLoss ==
    [][(api' # undefined /\ api'.call = "newMessage") => received' = api'.value]_vars

(***************************************************************************)
(* A peer whose messages name an entity no game state has.                 *)
(***************************************************************************)
StrayEntity == SetMax(PlayerIds) + 1

\* What the last player may send on its own: for the first tick that is
\* not filled at startup, a Move of an entity that does not exist and then
\* a Move of its own unit.
StrayMessages ==
    {[from |-> q, to |-> p,
      msg |-> [playerId |-> q,
               commands |-> (t :> <<MoveCommand(q, StrayEntity, Point2D(50, 100)),
                                    MoveCommand(q, q, Point2D(50, 100))>>),
               acks |-> <<>>]] :
        p \in PlayerIds, q \in {SetMax(PlayerIds)}, t \in {commandDelay}}

NextStray ==
    \/ \E p \in Players : WaitForTick(p)
    \/ \E p \in Players : RetryWait(p)
    \/ \E p \in Players : ExecuteTick(p)
    \/ \E m \in InFlight : Deliver(m)
    \/ \E m \in InFlight : LosePacket(m)
    \/ \E m \in StrayMessages : SendForeign(m)

InitStray ==
    /\ NoUnit
    /\ Setup(PlayerIds, 1, Lossy(PlayerIds), {}, MaxTick - 1, MaxInFlight)

SpecStray == InitStray /\ [][NextStray]_vars

\* The Moves among `commands` that name entity e, and whether `commands`
\* holds a Move that names no entity of `entities`.
MovesOf(commands, e) == SelectSeq(commands, LAMBDA c : c.type = "move" /\ c.entityId = e)
HasStrayMove(commands, entities) ==
    \E i \in 1..Len(commands) :
        commands[i].type = "move" /\ commands[i].entityId \notin DOMAIN entities

\* Entity `entity` after the Moves `moves` and one update.
AfterMoves(entity, moves) ==
    UnitMove(IF moves = <<>> THEN entity
             ELSE [entity EXCEPT !.target = moves[Len(moves)].point])

\* C16: a tick whose commands hold a Move of an entity the game state does
\* not have is executed to its end: no entity appears or disappears, every
\* entity obeys the Moves that name it, the later ones of the tick
\* included, and is updated, and the tick counter advances.
C16_UnknownEntitySkipped ==
    [][\A p \in Players :
          (tick'[p] = tick[p] + 1 /\
           HasStrayMove(executed'[p][Len(executed'[p])].commands, state[p])) =>
              /\ gameTick'[p] = gameTick[p] + 1
              /\ pc'[p] = "loop"
              /\ DOMAIN state'[p] = DOMAIN state[p]
              /\ \A e \in DOMAIN state[p] :
                    state'[p][e] = AfterMoves(state[p][e],
                                       MovesOf(executed'[p][Len(executed'[p])].commands, e))]_vars

\* An instance has executed a tick with a Move of a missing entity, and the
\* unit named by the Move that followed it is on its way to the target.
C16_Witness ==
    \E p \in Players :
        /\ Done(p) > 0
        /\ HasStrayMove(Record(p, Done(p) - 1).commands, state[p])
        /\ \E e \in DOMAIN state[p] :
              /\ MovesOf(Record(p, Done(p) - 1).commands, e) # <<>>
              /\ state[p][e].target # undefined
              /\ state[p][e].position # InitialEntities(Players, p)[e].position

(***************************************************************************)
(* The tick map, the tick counters and the game state over a game.         *)
(***************************************************************************)
\* C21: an instance at tick T holds no entry for a tick below
\* T - commandDelay - 1; nextTick at tick T removes the entry of tick
\* T - commandDelay - 1 and no other, and no other step removes an entry;
\* so that the entry of a pruned tick is never there again.
C21_PruningWindow ==
    /\ [](\A p \in Players : \A k \in DOMAIN tickCommandsMap[p] :
             k >= tick[p] - commandDelay - 1)
    /\ [][\A p \in Players :
             DOMAIN tickCommandsMap[p] \ DOMAIN tickCommandsMap'[p] =
                 IF tick'[p] = tick[p] + 1
                 THEN DOMAIN tickCommandsMap[p] \cap {tick[p] - commandDelay - 1}
                 ELSE {}]_vars

\* An instance has pruned two entries, holds the whole window from
\* T - commandDelay - 1 on, and the last message it processed named a
\* pruned tick.
C21_Witness ==
    \E p \in Players :
        /\ tick[p] >= commandDelay + 3
        /\ DOMAIN tickCommandsMap[p] = (tick[p] - commandDelay - 1)..(tick[p] + commandDelay - 1)
        /\ received # undefined
        /\ received.to = p
        /\ \E k \in DOMAIN received.msg.commands : k < tick[p] - commandDelay - 1

\* C25: every instance executes the ticks 0, 1, 2, ... in this order, each
\* once, each after waitForTick returned for it; and the tick counter of
\* the Game equals that of its CommandManager in every state.
C25_TickOrder ==
    /\ [](\A p \in Players :
             /\ gameTick[p] = tick[p]
             /\ Done(p) = gameTick[p]
             /\ \A t \in 0..(Done(p) - 1) : Record(p, t).tick = t)
    /\ [][\A p \in Players :
             \/ /\ gameTick'[p] = gameTick[p]
                /\ executed'[p] = executed[p]
             \/ /\ pc[p] = "resolved"
                /\ gameTick'[p] = gameTick[p] + 1
                /\ Len(executed'[p]) = Len(executed[p]) + 1]_vars

\* An instance has executed three ticks, the last one after a wait with a
\* resend.
C25_Witness ==
    \E p \in Players : \E q \in Players \ {p} :
        /\ Done(p) = MaxTick
        /\ gameTick[p] = MaxTick
        /\ Cardinality(pendingAcks[p][q]) > 1

\* C26: only the execution of a tick changes the entities of an instance:
\* a step that is not the tick execution of instance p (a receipt, a send
\* or resend, a loss, a click, a wait) leaves p's entities as they are, and
\* between two executions they are what the last execution left.
C26_StateOnlyByTicks ==
    /\ [][\A p \in Players : state'[p] # state[p] => gameTick'[p] = gameTick[p] + 1]_vars
    /\ [](\A p \in Players :
             Snapshot(state[p]) = IF Done(p) = 0 THEN Snapshot(InitialEntities(Players, p))
                                  ELSE Record(p, Done(p) - 1).after)

\* The receive task of an instance whose unit is on its way has just
\* processed a message that carries a Move.
C26_Witness ==
    /\ received # undefined
    /\ \E k \in DOMAIN received.msg.commands : HasMove(received.msg.commands[k])
    /\ \E e \in DOMAIN state[received.to] : state[received.to][e].target # undefined

\* C28: the current ticks of two instances never differ by more than
\* commandDelay.
C28_BoundedSkew ==
    \A p \in Players, q \in Players :
        /\ tick[p] - tick[q] <= commandDelay
        /\ gameTick[p] - gameTick[q] <= commandDelay

\* An instance is commandDelay = 2 ticks ahead of another.
C28_Witness ==
    \E p \in Players, q \in Players :
        /\ commandDelay > 1
        /\ tick[p] - tick[q] = commandDelay

\* C29: an entry (t, a) of any tick map is the list player a scheduled for
\* tick t, the startup Noop for t < commandDelay; the commands a message
\* carries are the sender's own; so that no two instances hold different
\* lists for the same (t, a).
C29_AgreementWithOrigin ==
    /\ \A p \in Players : \A t \in DOMAIN tickCommandsMap[p] :
          \A a \in DOMAIN tickCommandsMap[p][t] :
              /\ t >= commandDelay => Done(a) > t - commandDelay
              /\ tickCommandsMap[p][t][a] = ScheduledBy(a, t)
    /\ \A m \in InFlight : \A k \in DOMAIN m.msg.commands :
          \A i \in 1..Len(m.msg.commands[k]) :
              m.msg.commands[k][i].playerId = m.msg.playerId
    /\ \A p \in Players, q \in Players :
          \A t \in DOMAIN tickCommandsMap[p] \cap DOMAIN tickCommandsMap[q] :
              \A a \in DOMAIN tickCommandsMap[p][t] \cap DOMAIN tickCommandsMap[q][t] :
                  tickCommandsMap[p][t][a] = tickCommandsMap[q][t][a]

\* An instance holds, for a tick past the startup ticks, the Move a peer
\* scheduled for it.
C29_Witness ==
    \E p \in Players : \E a \in Players \ {p} :
        \E t \in DOMAIN tickCommandsMap[p] :
            /\ t >= commandDelay
            /\ a \in DOMAIN tickCommandsMap[p][t]
            /\ HasMove(tickCommandsMap[p][t][a])

\* C30: whenever an ack of B takes tick t out of A's pending-ack set for
\* B, B holds A's list for tick t or B's tick is greater than t.
C30_AckSoundness ==
    [][received' # undefined =>
          LET A == received'.to
              B == received'.msg.playerId
          IN  \A t \in pendingAcks[A][B] \ pendingAcks'[A][B] :
                  \/ /\ t \in DOMAIN tickCommandsMap[B]
                     /\ A \in DOMAIN tickCommandsMap[B][t]
                     /\ tickCommandsMap[B][t][A] = ScheduledIn(executed[A], A, t)
                  \/ tick[B] > t]_vars

\* An ack has just taken out of a pending-ack set a tick that the acking
\* peer had pruned and that it was sent once more with an empty list.
C30_Witness ==
    /\ received # undefined
    /\ \E t \in Range(received.msg.acks) :
          /\ t \notin pendingAcks[received.to][received.msg.playerId]
          /\ t \notin DOMAIN tickCommandsMap[received.msg.playerId]
          /\ t \notin DOMAIN tickCommandsMap[received.to]
          /\ t < tick[received.msg.playerId]

(***************************************************************************)
(* The pending-ack sets.                                                   *)
(***************************************************************************)
\* C22 as stated: a tick pending for peer P has been sent to P and no ack
\* of P for it has been processed, and a tick whose ack was processed never
\* is pending for P again.  Every tick from commandDelay to
\* tick + commandDelay - 1 was sent by a nextTick and leaves the set only
\* with an ack, so that a tick is to enter the set only with the nextTick
\* that sends it first.
C22_PendingSentUnacked ==
    /\ [](\A p \in Players : \A P \in Players \ {p} : \A t \in pendingAcks[p][P] :
             t \in commandDelay..(tick[p] + commandDelay - 1))
    /\ [][\A p \in Players : \A P \in Players \ {p} :
             \A t \in pendingAcks'[p][P] \ pendingAcks[p][P] :
                 /\ tick'[p] = tick[p] + 1
                 /\ t = tick[p] + commandDelay]_vars

\* C22, amended: a tick is pending for peer P exactly from a sendCommands
\* call for that tick (nextTick for tick + commandDelay, a retry of
\* waitForTick for tick + commandDelay - 1, acked before or not) that hands
\* P a message naming it, until the next ack of P for it is processed;
\* nothing else adds a tick, nothing else removes one, and no tick acked by
\* a message is pending right after the message is processed.
C22_PendingSinceLastSend ==
    /\ [](\A p \in Players : \A P \in Players \ {p} : \A t \in pendingAcks[p][P] :
             t \in commandDelay..(tick[p] + commandDelay - 1))
    /\ [][\A p \in Players : \A P \in Players \ {p} :
             /\ \A t \in pendingAcks'[p][P] \ pendingAcks[p][P] :
                   /\ sent' # <<>>
                   /\ Sender(sent') = p
                   /\ \E i \in 1..Len(sent') :
                         sent'[i].to = P /\ t \in DOMAIN sent'[i].msg.commands
                   /\ t = IF tick'[p] = tick[p] + 1 THEN tick[p] + commandDelay
                          ELSE tick[p] + commandDelay - 1
             /\ \A t \in pendingAcks[p][P] \ pendingAcks'[p][P] :
                   /\ received' # undefined
                   /\ received'.to = p
                   /\ received'.msg.playerId = P
                   /\ t \in Range(received'.msg.acks)
             /\ (received' # undefined /\ received'.to = p /\ received'.msg.playerId = P)
                   => Range(received'.msg.acks) \cap pendingAcks'[p][P] = {}]_vars

\* A retry of waitForTick has just sent again, and made pending again as
\* the only pending tick, a tick whose list the peer holds and for which
\* the peer has no ack left to send.
C22_Witness ==
    \E p \in Players : \E P \in Players \ {p} :
        /\ pc[p] = "waiting"
        /\ sent # <<>>
        /\ Sender(sent) = p
        /\ pendingAcks[p][P] = {tick[p] + commandDelay - 1}
        /\ tick[p] + commandDelay - 1 \in DOMAIN tickCommandsMap[P]
        /\ p \in DOMAIN tickCommandsMap[P][tick[p] + commandDelay - 1]
        /\ acksToSend[P][p] = <<>>
        /\ Channel(network, P, p) = {}

(***************************************************************************)
(* waitForTick with the waiting times of one instance followed.            *)
(***************************************************************************)
InitTimed ==
    /\ NoUnit
    /\ \E p \in PlayerIds :
          Setup(PlayerIds, 1, Lossy(PlayerIds), {p}, MaxTick + 1, MaxInFlight)

SpecTimed == InitTimed /\ [][NextQuiet]_vars

\* C23: a pass of waitForTick that finds its tick ready sends nothing and
\* returns; a pass that finds it not ready hands every other player one
\* message that carries the lists this instance scheduled for tick
\* tick + commandDelay - 1 and for every tick pending for that player, then
\* sleeps 50 ms on the first pass and min(1.5 times the last sleep, 500 ms)
\* on the following ones (stated of the instance whose waiting times are
\* followed); and a sleeping waitForTick always has a next pass (as far as
\* the exploration goes: when the channels of the instance have room).
C23_ResendWhileWaiting ==
    /\ [](\A p \in Players : (pc[p] = "waiting" /\ RoomToSend(p)) => ENABLED RetryWait(p))
    /\ [][\A p \in Players :
             (/\ pc[p] \in {"loop", "waiting"}
              /\ \/ pc'[p] = "resolved"
                 \/ sent' # <<>> /\ Sender(sent') = p)
             => IF isTickReady(tickCommandsMap[p], gameTick[p], sortedPlayerIds[p])
                THEN /\ sent' = <<>>
                     /\ pc'[p] = "resolved"
                     /\ network' = network
                     /\ pendingAcks' = pendingAcks
                ELSE /\ pc'[p] = "waiting"
                     /\ Len(sent') = Len(otherPlayerIds[p])
                     /\ \A q \in Players \ {p} :
                           \E i \in 1..Len(sent') :
                               /\ sent'[i].to = q
                               /\ sent'[i].msg.playerId = p
                               /\ DOMAIN sent'[i].msg.commands =
                                      {tick[p] + commandDelay - 1} \cup pendingAcks[p][q]
                               /\ \A k \in DOMAIN sent'[i].msg.commands :
                                      sent'[i].msg.commands[k] = ScheduledIn(executed[p], p, k)
                     /\ p \in timed =>
                           /\ waitTime'[p] = IF pc[p] = "loop" THEN 50 * WaitScale
                                             ELSE IF 3 * waitTime[p] < 2 * 500 * WaitScale
                                                  THEN (3 * waitTime[p]) \div 2
                                                  ELSE 500 * WaitScale
                           /\ waitTime'[p] <= 500 * WaitScale]_vars

(***************************************************************************)
(* The command processor on its own: any command sequence is dispatched    *)
(* on the entities of an instance, at rest or on their way.  A behaviour   *)
(* exercises one instance, the others keep their initial entities.         *)
(***************************************************************************)
MaxCommands == 2
MaxUpdates == 2

\* The commands of a tick: Noops, and Moves of any unit issued by any
\* player, each player sending the units to a point of its own.
MovePoint(playerId) == Point2D(50 + 50 * playerId, 100 - 50 * playerId)

OthersUntouched(p) == \A q \in Players \ {p} : state[q] = InitialEntities(Players, q)

TickCommands ==
    {NoopCommand(q) : q \in PlayerIds}
        \cup {MoveCommand(q, e, MovePoint(q)) : q \in PlayerIds, e \in PlayerIds}

CommandSequences ==
    UNION {[1..n -> TickCommands] : n \in 0..MaxCommands}

\* commandProcessor.processCommands(commands, gameState) of instance p.
Dispatch(p, commands) ==
    /\ OthersUntouched(p)
    /\ state' = [state EXCEPT ![p] = processCommands(commands, @)]
    /\ api' = [call |-> "processCommands", playerId |-> p, commands |-> commands]
    /\ sent' = <<>>
    /\ received' = undefined
    /\ UNCHANGED <<commandDelay, cmVars, gameTick, pc, waitTime, timed, horizon, input,
                   netVars, executed, clicks, unitVars>>

\* Game.update of instance p on a frame without a click.
Update(p) ==
    /\ updates < MaxUpdates
    /\ OthersUntouched(p)
    /\ state' = [state EXCEPT ![p] = [e \in DOMAIN @ |-> UnitMove(@[e])]]
    /\ updates' = updates + 1
    /\ api' = undefined
    /\ sent' = <<>>
    /\ received' = undefined
    /\ UNCHANGED <<commandDelay, cmVars, gameTick, pc, waitTime, timed, horizon, input,
                   netVars, executed, clicks, unit, moved>>

NextDispatch ==
    \/ \E p \in Players : \E commands \in CommandSequences : Dispatch(p, commands)
    \/ \E p \in Players : Update(p)

InitDispatch ==
    /\ NoUnit
    /\ Setup(PlayerIds, 1, Lossy(PlayerIds), {}, 0, MaxInFlight)

SpecDispatch == InitDispatch /\ [][NextDispatch]_vars

\* C24: processCommands leaves every unit with the point of the last Move
\* of the sequence that names it as its target, whatever its target was,
\* whether it was on its way and whoever issued the Move, and leaves a unit
\* that no Move names, and everything but the targets, as they were.
C24_LastMoveWins ==
    [][(api' # undefined /\ api'.call = "processCommands") =>
          /\ DOMAIN state'[api'.playerId] = DOMAIN state[api'.playerId]
          /\ \A p \in Players \ {api'.playerId} : state'[p] = state[p]
          /\ \A e \in DOMAIN state[api'.playerId] :
                state'[api'.playerId][e] =
                    IF MovesOf(api'.commands, e) = <<>> THEN state[api'.playerId][e]
                    ELSE [state[api'.playerId][e] EXCEPT
                             !.target = MovesOf(api'.commands, e)
                                            [Len(MovesOf(api'.commands, e))].point]]_vars

\* The sequence just dispatched holds two Moves of a unit that was on its
\* way, the last one by a player that does not own it and to another point
\* than the first; the unit has the point of the last as its target, and a
\* unit no Move names still has the target it had.
C24_Witness ==
    /\ api # undefined
    /\ api.call = "processCommands"
    /\ \E e \in DOMAIN state[api.playerId] :
          \E f \in DOMAIN state[api.playerId] \ {e} :
              LET moves == MovesOf(api.commands, e)
              IN  /\ Len(moves) > 1
                  /\ moves[Len(moves)].playerId # state[api.playerId][e].playerId
                  /\ moves[1].point # moves[Len(moves)].point
                  /\ state[api.playerId][e].target = moves[Len(moves)].point
                  /\ state[api.playerId][e].position #
                         InitialEntities(Players, api.playerId)[e].position
                  /\ MovesOf(api.commands, f) = <<>>
                  /\ state[api.playerId][f].target # undefined

(***************************************************************************)
(* A game with the command delay the settings allow to be 0, next to a     *)
(* game with command delay 1, on a network with and without loss.          *)
(***************************************************************************)
LossFree(ids) == [p \in ids |-> 0]

InitZeroDelay ==
    /\ NoUnit
    /\ \E delay \in {0, 1} : \E loss \in {LossFree(PlayerIds), Lossy(PlayerIds)} :
          Setup(PlayerIds, delay, loss, {}, MaxTick - 1, MaxInFlight)

\* A game without clicks whose players move the packet loss sliders.
NextZeroDelay ==
    \/ NextQuiet
    \/ \E playerId \in Players, options \in LossOptions : SetOptions(playerId, options)

SpecZeroDelay == InitZeroDelay /\ [][NextZeroDelay]_vars

\* C31: with commandDelay = 0 no tick has an entry at the start, no
\* instance ever holds its own list for tick 0, waitForTick(0) returns on
\* no instance and no instance executes a tick, with or without loss.
C31_ZeroDelayNeverStarts ==
    commandDelay = 0 =>
        \A p \in Players :
            /\ getCommandsForPlayer(tickCommandsMap[p], 0, p) = <<>>
            /\ pc[p] # "resolved"
            /\ gameTick[p] = 0
            /\ tick[p] = 0
            /\ executed[p] = <<>>

\* On a loss-free network with commandDelay = 0, an instance is waiting
\* for tick 0 and has just processed a message of its peer, which was
\* itself an answer to one of its own.
C31_Witness ==
    /\ commandDelay = 0
    /\ \A p \in Players : packetLoss[p] = 0
    /\ received # undefined
    /\ received.msg.acks # <<>>
    /\ pc[received.to] = "waiting"
    /\ pc[received.msg.playerId] = "waiting"

(***************************************************************************)
(* The instances on the one event loop of the page.  A timer of            *)
(* waitForTick, an animation frame, a click and the timer of a message in  *)
(* flight are tasks; the loop that resumes from `await waitForTick(t)`     *)
(* once waitForTick has returned is a microtask, and the event loop runs   *)
(* no task while a microtask is due.                                       *)
(***************************************************************************)
\* waitForTick returning through one more timer.
ResumesAsMicrotaskNever(p) == FALSE

\* Game.start: waitForTick(t) has returned without a timer in between, the
\* rest of the loop body is due as a microtask.
ResumesAsMicrotask(p) == pc[p] = "resolved" /\ gameTick[p] < horizon

\* No microtask is due: the event loop takes the next task.
TaskTurn == \A p \in Players : ~ResumesAsMicrotask(p)

NextEventLoop ==
    \/ \E p \in Players : ExecuteTick(p)
    \/ TaskTurn /\ \E p \in Players, point \in ClickPoints : MouseDown(p, point)
    \/ TaskTurn /\ \E p \in Players : WaitForTick(p)
    \/ TaskTurn /\ \E p \in Players : RetryWait(p)
    \/ TaskTurn /\ \E m \in InFlight : Deliver(m)
    \/ TaskTurn /\ \E m \in InFlight : LosePacket(m)

InitEventLoop ==
    /\ NoUnit
    /\ \E delay \in CommandDelays :
          Setup(PlayerIds, delay, Lossy(PlayerIds), {}, MaxTick, MaxInFlight)

SpecEventLoop == InitEventLoop /\ [][NextEventLoop]_vars

\* C32: from the step in which waitForTick(t) of an instance finds tick t
\* ready, the very next step is the rest of that instance's loop body, to
\* the end of nextTick, on the tick map waitForTick saw: no receipt, no
\* send, no wait, no click and no other pass of its loop comes in between;
\* and a pass of the loop begins only when none is in progress.
C32_TickProcessingAtomic ==
    /\ [][\A p \in Players :
             (pc[p] = "resolved" /\ gameTick[p] < horizon) =>
                 /\ pc'[p] = "loop"
                 /\ gameTick'[p] = gameTick[p] + 1
                 /\ tick'[p] = tick[p] + 1
                 /\ received' = undefined
                 /\ executed'[p][Len(executed'[p])].commands =
                        getAllCommands(tickCommandsMap[p], gameTick[p], sortedPlayerIds[p])
                 /\ \A q \in Players \ {p} :
                        /\ pc'[q] = pc[q]
                        /\ tickCommandsMap'[q] = tickCommandsMap[q]
                        /\ state'[q] = state[q]]_vars
    /\ [][\A p \in Players :
             (pc[p] = "loop" /\ pc'[p] # "loop") =>
                 \A q \in Players : ~(pc[q] = "resolved" /\ gameTick[q] < horizon)]_vars

\* waitForTick of an instance has just returned while a message for it is
\* in flight and its peer sleeps in waitForTick.
C32_Witness ==
    \E p \in Players : \E q \in Players \ {p} :
        /\ pc[p] = "resolved"
        /\ gameTick[p] < horizon
        /\ gameTick[p] >= commandDelay
        /\ pc[q] = "waiting"
        /\ \E m \in InFlight : m.to = p /\ MayArrive(m)
====
